---- MODULE Spec2Model ----
(***************************************************************************)
(* Voice-controlled robot: the intent resolver (command_parser.py), the    *)
(* perception snapshot (computer_vision.py), the robot controller          *)
(* (robot_controller.py) and the handlers of the control loop              *)
(* (main_application.py).                                                  *)
(*                                                                         *)
(* Text is modelled at token level.  An utterance is a sequence of tokens  *)
(* separated by whitespace; a token is a word (a maximal run of \w         *)
(* characters), the punctuation token "," (a run of characters that are    *)
(* neither \w nor whitespace) or WS, an additional run of whitespace.      *)
(* Every pattern of the parser starts and ends with \b and joins its       *)
(* pieces with whitespace, so a pattern matches exactly when its pieces    *)
(* equal consecutive word tokens.                                          *)
(*                                                                         *)
(* Confidences are in tenths (0.8 is 8).                                   *)
(***************************************************************************)
EXTENDS Integers, Sequences, FiniteSets, TLC

VARIABLES
    vocab,             \* words the recognizer can produce in this run
    text,              \* the utterance handed to parse_command
    command,           \* the RobotCommand parse_command returned, or NoCommand
    command_patterns,  \* CommandParser.command_patterns
    known_objects,     \* CommandParser.known_objects
    calls,             \* history: parse_command calls counted so far
    remembered,        \* history: one earlier call, its text and its result
    heap,              \* the list objects of the vision module, by identity
    detected_objects,  \* ComputerVision.detected_objects: the list it refers to
    cam_pc,            \* camera thread: "read", "process", "detect", "publish"
    cam_list,          \* process_frame's local detected_objects (0: none)
    cam_todo,          \* detections of the frame not yet appended
    frame_no,          \* frames read so far
    frame_lock,        \* ComputerVision.frame_lock: "free" or its holder
    rd_pc,             \* reader thread: "idle", "iter"
    rd_op,             \* the query running: "find_object", "get_largest_object"
    rd_arg,            \* its object_name
    rd_list,           \* the list the query iterates
    rd_idx,            \* the iterator's position in it
    rd_seen,           \* the entries this query has read
    rd_result,         \* what the last query returned
    center_x,          \* obj.center[0] handed to get_object_direction
    frame_width,       \* frame_width handed to get_object_direction
    direction,         \* what get_object_direction returned, or "none"
    is_connected,      \* RobotController.is_connected
    operation,         \* the last operation called: its name, command, argument
    handed,            \* the records that operation handed to send_command
    wire,              \* the records that operation wrote to the socket
    result,            \* what that operation returned
    current_mode,      \* VoiceControlledRobot.current_mode
    last_command_time, \* VoiceControlledRobot.last_command_time, in seconds
    now,               \* what time.time() returns, in seconds
    timer_start,       \* history: when the system started, last accepted a
                       \* command or last returned to voice control
    command_queue,     \* VoiceRecognizer.command_queue
    is_running,        \* VoiceControlledRobot.is_running
    sys_pc,            \* the thread that calls start() and stop()
    ctl_pc,            \* the control-loop thread: "none" before it is started,
                       \* "test" at the while, "body" in an iteration, "done"
    delivered,         \* history: the last two records written to the socket
    startup            \* history: the components start() has brought up

parserVars ==
    <<vocab, text, command, command_patterns, known_objects, calls, remembered>>

visionVars ==
    <<heap, detected_objects, cam_pc, cam_list, cam_todo, frame_no, frame_lock,
      rd_pc, rd_op, rd_arg, rd_list, rd_idx, rd_seen, rd_result>>

directionVars == <<center_x, frame_width, direction>>

controlVars == <<is_connected, operation, handed, wire, result>>

loopVars == <<current_mode, last_command_time, now, timer_start, command_queue>>

lifeVars == <<is_running, sys_pc, ctl_pc, delivered, startup>>

appVars == <<loopVars, lifeVars>>

vars == <<parserVars, visionVars, directionVars, controlVars, appVars>>

(***************************************************************************)
(* Bounds                                                                  *)
(***************************************************************************)
MaxWords == 3
MaxCalls == 3
MaxFrames == 2
MaxDetections == 2
MaxQueue == 1
MaxTicks == 4

(***************************************************************************)
(* Lexicon: what lower(), strip(), \w, \d and int() do to the tokens       *)
(***************************************************************************)
WS == " "

PUNCT == ","

\* \w+ matches a whole word token, never punctuation or whitespace
IsWord(tok) == tok \notin {WS, PUNCT, ""}

\* str.lower() on one token
LowerWord(tok) ==
    CASE tok = "Ball" -> "ball"
      [] tok = "STOP" -> "stop"
      [] tok = "Slowly" -> "slowly"
      [] OTHER -> tok

\* str.lower()
Lower(s) == [i \in DOMAIN s |-> LowerWord(s[i])]

RECURSIVE LStrip(_)
LStrip(s) == IF s # <<>> /\ Head(s) = WS THEN LStrip(Tail(s)) ELSE s

RECURSIVE RStrip(_)
RStrip(s) ==
    IF s # <<>> /\ s[Len(s)] = WS THEN RStrip(SubSeq(s, 1, Len(s) - 1)) ELSE s

\* str.strip()
Strip(s) == RStrip(LStrip(s))

\* the word and punctuation tokens of a text: what \s+ separates and
\* str.split() returns
Tokens(s) == SelectSeq(s, LAMBDA tok : tok # WS)

\* int() of a token made of digits
IntValue == ("0" :> 0) @@ ("5" :> 5) @@ ("12" :> 12)

\* a token as <<leading digits, rest>>: what \b(\d+) consumes of it
DigitSplit(tok) ==
    CASE tok \in DOMAIN IntValue -> <<tok, "">>
      [] tok = "5seconds" -> <<"5", "seconds">>
      [] tok = "5second" -> <<"5", "second">>
      [] OTHER -> <<"", tok>>

\* (second|minute|meter|step)s?\b : the unit a word is, singular or plural
UnitStem ==
    ("second" :> "second") @@ ("seconds" :> "second") @@
    ("minute" :> "minute") @@ ("minutes" :> "minute") @@
    ("meter" :> "meter") @@ ("meters" :> "meter") @@
    ("step" :> "step") @@ ("steps" :> "step")

Range(s) == {s[i] : i \in DOMAIN s}

Last(s) == s[Len(s)]

Min(S) == CHOOSE x \in S : \A y \in S : x <= y

(***************************************************************************)
(* RobotAction and RobotCommand                                            *)
(***************************************************************************)
MOVE_FORWARD == "move_forward"
MOVE_BACKWARD == "move_backward"
TURN_LEFT == "turn_left"
TURN_RIGHT == "turn_right"
STOP == "stop"
FIND_OBJECT == "find_object"
FOLLOW_OBJECT == "follow_object"
AVOID_OBSTACLE == "avoid_obstacle"
UNKNOWN == "unknown"

RobotAction ==
    {MOVE_FORWARD, MOVE_BACKWARD, TURN_LEFT, TURN_RIGHT, STOP,
     FIND_OBJECT, FOLLOW_OBJECT, AVOID_OBSTACLE, UNKNOWN}

\* parameters is a dict: a function whose domain is the set of keys present
RobotCommand(action, parameters, confidence) ==
    [action |-> action, parameters |-> parameters, confidence |-> confidence]

\* no command has been returned yet
NoCommand == [action |-> "none", parameters |-> <<>>, confidence |-> 0]

(***************************************************************************)
(* Patterns: a pattern is a sequence of pieces joined by \s+ between two   *)
(* \b; a piece is an alternation of word sequences, capturing or not, or   *)
(* the capture (\w+).                                                      *)
(***************************************************************************)
One(ws) == [i \in DOMAIN ws |-> <<ws[i]>>]

Lit(w) == [alts |-> <<<<w>>>>, wild |-> FALSE, cap |-> FALSE]

Grp(alts) == [alts |-> alts, wild |-> FALSE, cap |-> TRUE]

AnyWord == [alts |-> <<>>, wild |-> TRUE, cap |-> TRUE]

\* mutant: the verbs cut to the two the tests use
MoveVerbsShort == <<"move", "go">>

\* lines 42, 47: the verbs of the two-word move patterns
MoveVerbs == <<"move", "go", "walk", "drive">>

CommandPatterns ==
    << [action |-> MOVE_FORWARD, patterns |->
          << <<Grp(One(MoveVerbs)),
               Grp(One(<<"forward", "ahead", "straight">>))>>,
             <<Grp(One(<<"forward", "ahead">>))>>,
             <<Lit("move"), Lit("forward")>> >>],
       [action |-> MOVE_BACKWARD, patterns |->
          << <<Grp(One(MoveVerbs)),
               Grp(One(<<"backward", "back", "reverse">>))>>,
             <<Grp(One(<<"backward", "back", "reverse">>))>>,
             <<Lit("move"), Lit("back")>> >>],
       [action |-> TURN_LEFT, patterns |->
          << <<Grp(One(<<"turn", "rotate", "spin">>)),
               Grp(One(<<"left", "counterclockwise">>))>>,
             <<Grp(<<<<"left">>, <<"turn", "left">>>>)>>,
             <<Lit("go"), Lit("left")>> >>],
       [action |-> TURN_RIGHT, patterns |->
          << <<Grp(One(<<"turn", "rotate", "spin">>)),
               Grp(One(<<"right", "clockwise">>))>>,
             <<Grp(<<<<"right">>, <<"turn", "right">>>>)>>,
             <<Lit("go"), Lit("right")>> >>],
       [action |-> STOP, patterns |->
          << <<Grp(One(<<"stop", "halt", "pause", "brake">>))>>,
             <<Lit("stop"), Grp(One(<<"moving", "now">>))>>,
             <<Lit("freeze")>> >>],
       [action |-> FIND_OBJECT, patterns |->
          << <<Grp(<<<<"find">>, <<"search">>, <<"look", "for">>, <<"locate">>>>),
               AnyWord>>,
             <<Lit("where"), Lit("is"), AnyWord>>,
             <<Lit("search"), Lit("for"), AnyWord>> >>],
       [action |-> FOLLOW_OBJECT, patterns |->
          << <<Grp(One(<<"follow", "chase", "track">>)), AnyWord>>,
             <<Lit("go"), Lit("to"), AnyWord>>,
             <<Lit("move"), Lit("towards"), AnyWord>> >>],
       [action |-> AVOID_OBSTACLE, patterns |->
          << <<Grp(<<<<"avoid">>, <<"dodge">>, <<"go", "around">>>>), AnyWord>>,
             <<Lit("stay"), Lit("away"), Lit("from"), AnyWord>> >>] >>

KnownObjects ==
    <<"ball", "person", "chair", "table", "bottle", "cup", "book",
      "phone", "laptop", "mouse", "keyboard", "car", "bicycle",
      "dog", "cat", "bird", "flower", "tree", "wall", "door">>

(***************************************************************************)
(* re.search                                                               *)
(***************************************************************************)
NoMatch == [ok |-> FALSE, groups |-> <<>>]

\* the word sequence alt stands at position i of toks
AltAt(alt, toks, i) ==
    /\ i + Len(alt) - 1 <= Len(toks)
    /\ \A j \in 1..Len(alt) : toks[i + j - 1] = alt[j]

RECURSIVE JoinWords(_)
JoinWords(ws) ==
    IF Len(ws) = 1 THEN ws[1] ELSE ws[1] \o " " \o JoinWords(Tail(ws))

RECURSIVE MatchFrom(_, _, _, _)
RECURSIVE TryAlts(_, _, _, _, _)

\* pieces k.. of pat matched against toks from position i on; groups are
\* the captured texts in order
MatchFrom(pat, k, toks, i) ==
    IF k > Len(pat) THEN [ok |-> TRUE, groups |-> <<>>]
    ELSE IF pat[k].wild
         THEN IF i <= Len(toks) /\ IsWord(toks[i])
              THEN LET r == MatchFrom(pat, k + 1, toks, i + 1)
                   IN  IF r.ok
                       THEN [ok |-> TRUE, groups |-> <<toks[i]>> \o r.groups]
                       ELSE NoMatch
              ELSE NoMatch
         ELSE TryAlts(pat, k, toks, i, 1)

\* the alternatives of piece k from the a-th on, in order, with backtracking
TryAlts(pat, k, toks, i, a) ==
    IF a > Len(pat[k].alts) THEN NoMatch
    ELSE LET alt == pat[k].alts[a]
         IN  IF AltAt(alt, toks, i)
             THEN LET r == MatchFrom(pat, k + 1, toks, i + Len(alt))
                  IN  IF r.ok
                      THEN [ok |-> TRUE,
                            groups |-> IF pat[k].cap
                                       THEN <<JoinWords(alt)>> \o r.groups
                                       ELSE r.groups]
                      ELSE TryAlts(pat, k, toks, i, a + 1)
             ELSE TryAlts(pat, k, toks, i, a + 1)

\* re.search(pattern, text): the leftmost match
Search(pat, toks) ==
    LET starts == {i \in 1..Len(toks) : MatchFrom(pat, 1, toks, i).ok}
    IN  IF starts = {} THEN NoMatch ELSE MatchFrom(pat, 1, toks, Min(starts))

\* re.search(r'\b(slow|fast|quick|slowly|quickly)\b', text)
SpeedWords == {"slow", "fast", "quick", "slowly", "quickly"}

\* mutant: the last speed word instead of the first
SpeedSearchLast(toks) ==
    LET starts == {i \in 1..Len(toks) : toks[i] \in SpeedWords}
    IN  IF starts = {} THEN NoMatch
        ELSE [ok |-> TRUE, groups |-> <<toks[0 - Min({0 - i : i \in starts})]>>]

SpeedSearch(toks) ==
    LET starts == {i \in 1..Len(toks) : toks[i] \in SpeedWords}
    IN  IF starts = {} THEN NoMatch
        ELSE [ok |-> TRUE, groups |-> <<toks[Min(starts)]>>]

\* mutant: \s+ instead of \s* between the integer and the unit
DurationAtSpaced(toks, i) ==
    IF /\ toks[i] \in DOMAIN IntValue
       /\ i < Len(toks)
       /\ toks[i + 1] \in DOMAIN UnitStem
    THEN [ok |-> TRUE, groups |-> <<toks[i], UnitStem[toks[i + 1]]>>]
    ELSE NoMatch

\* \b(\d+)\s*(second|minute|meter|step)s?\b standing at position i
DurationAt(toks, i) ==
    LET d == DigitSplit(toks[i])
    IN  IF d[1] = "" THEN NoMatch
        ELSE IF d[2] # ""
             THEN IF d[2] \in DOMAIN UnitStem
                  THEN [ok |-> TRUE, groups |-> <<d[1], UnitStem[d[2]]>>]
                  ELSE NoMatch
             ELSE IF i < Len(toks) /\ toks[i + 1] \in DOMAIN UnitStem
                  THEN [ok |-> TRUE, groups |-> <<d[1], UnitStem[toks[i + 1]]>>]
                  ELSE NoMatch

\* re.search(r'\b(\d+)\s*(second|minute|meter|step)s?\b', text)
DurationSearch(toks) ==
    LET starts == {i \in 1..Len(toks) : DurationAt(toks, i).ok}
    IN  IF starts = {} THEN NoMatch ELSE DurationAt(toks, Min(starts))

(***************************************************************************)
(* CommandParser.parse_command                                             *)
(***************************************************************************)
BaseConfidence == 8

\* mutant: the confidence as a percentage
KnownConfidencePercent == 9 * 10

KnownConfidence == 9
FallbackConfidence == 7
UnknownConfidence == 0

ObjectActions == {FIND_OBJECT, FOLLOW_OBJECT, AVOID_OBSTACLE}

\* mutant: the test of match.groups() is inverted, the vocabulary scan is
\* taken when there is a capture
ObjectPartScan(action, match, known, txt) ==
    IF action \in ObjectActions
    THEN IF match.groups = <<>>
         THEN [parameters |-> <<>>, confidence |-> BaseConfidence]
         ELSE LET words == Tokens(txt)
                  hits == {i \in 1..Len(words) : words[i] \in Range(known)}
              IN  IF hits = {}
                  THEN [parameters |-> <<>>, confidence |-> BaseConfidence]
                  ELSE [parameters |-> "object" :> words[Min(hits)],
                        confidence |-> FallbackConfidence]
    ELSE [parameters |-> <<>>, confidence |-> BaseConfidence]

\* lines 117-139: the object parameter and the confidence
ObjectPart(action, match, known, txt) ==
    IF action \in ObjectActions
    THEN IF match.groups # <<>>
         THEN LET object_name == Last(match.groups)
              IN  IF object_name # ""
                  THEN [parameters |-> "object" :> object_name,
                        confidence |-> IF object_name \in Range(known)
                                       THEN KnownConfidence
                                       ELSE BaseConfidence]
                  ELSE [parameters |-> <<>>, confidence |-> BaseConfidence]
         ELSE LET words == Tokens(txt)
                  hits == {i \in 1..Len(words) : words[i] \in Range(known)}
              IN  IF hits = {}
                  THEN [parameters |-> <<>>, confidence |-> BaseConfidence]
                  ELSE [parameters |-> "object" :> words[Min(hits)],
                        confidence |-> FallbackConfidence]
    ELSE [parameters |-> <<>>, confidence |-> BaseConfidence]

\* lines 141-144
SpeedPart(txt) ==
    LET speed_match == SpeedSearch(Tokens(txt))
    IN  IF speed_match.ok THEN "speed" :> speed_match.groups[1] ELSE <<>>

\* lines 146-149
DurationPart(txt) ==
    LET duration_match == DurationSearch(Tokens(txt))
    IN  IF duration_match.ok
        THEN ("duration" :> IntValue[duration_match.groups[1]]) @@
             ("unit" :> duration_match.groups[2])
        ELSE <<>>

\* lines 113-153: the command built for the first matching pattern
MatchedCommand(action, match, known, txt) ==
    LET obj == ObjectPart(action, match, known, txt)
    IN  RobotCommand(action,
                     obj.parameters @@ SpeedPart(txt) @@ DurationPart(txt),
                     obj.confidence)

\* mutant: the unknown command built as for empty text
UnknownCommandBare(txt) == RobotCommand(UNKNOWN, <<>>, UnknownConfidence)

\* lines 155-157
UnknownCommand(txt) ==
    RobotCommand(UNKNOWN, "original_text" :> txt, UnknownConfidence)

\* mutant: no return at the first match, the last matching pattern wins
ScanPatternsLastWins(table, known, txt, a, p) ==
    LET hits == {<<i, j>> \in (DOMAIN table) \X (1..3) :
                    /\ j \in DOMAIN table[i].patterns
                    /\ Search(table[i].patterns[j], Tokens(txt)).ok}
    IN  IF hits = {} THEN UnknownCommand(txt)
        ELSE LET h == CHOOSE x \in hits : \A y \in hits :
                          y[1] < x[1] \/ (y[1] = x[1] /\ y[2] <= x[2])
             IN  MatchedCommand(table[h[1]].action,
                                Search(table[h[1]].patterns[h[2]], Tokens(txt)),
                                known, txt)

RECURSIVE ScanPatterns(_, _, _, _, _)
\* lines 110-153: actions in table order, each action's patterns in list
\* order, from pattern p of action a on
ScanPatterns(table, known, txt, a, p) ==
    IF a > Len(table) THEN UnknownCommand(txt)
    ELSE IF p > Len(table[a].patterns)
         THEN ScanPatterns(table, known, txt, a + 1, 1)
         ELSE LET match == Search(table[a].patterns[p], Tokens(txt))
              IN  IF match.ok
                  THEN MatchedCommand(table[a].action, match, known, txt)
                  ELSE ScanPatterns(table, known, txt, a, p + 1)

parse_command(table, known, raw) ==
    LET txt == Strip(Lower(raw))
    IN  IF txt = <<>>
        THEN RobotCommand(UNKNOWN, <<>>, UnknownConfidence)
        ELSE ScanPatterns(table, known, txt, 1, 1)

(***************************************************************************)
(* ComputerVision: the snapshot and its queries.  A DetectedObject is      *)
(* [name, area, frame]; frame is the number of the frame whose processing  *)
(* created it (history, not a field of the code).                          *)
(***************************************************************************)
None == [name |-> "None", area |-> 0, frame |-> 0]

\* what one frame can be detected to hold: face detections come first, then
\* the colour blobs
DetectionKinds ==
    {[name |-> "person", area |-> 4800], [name |-> "red_ball", area |-> 900]}

RECURSIVE SeqsUpTo(_, _)
SeqsUpTo(S, n) ==
    IF n = 0 THEN {<<>>}
    ELSE LET shorter == SeqsUpTo(S, n - 1)
         IN  shorter \cup {Append(s, x) : s \in {t \in shorter : Len(t) = n - 1}, x \in S}

DetectedObject(kind, f) == [name |-> kind.name, area |-> kind.area, frame |-> f]

\* object_name in obj.name.lower(), on the names and queries of the model
NameContains(name, sub) ==
    \/ sub = ""
    \/ sub = name
    \/ sub = "ball" /\ name = "red_ball"
    \/ sub = "red" /\ name = "red_ball"

Queries == {"ball", "person", "car"}

\* mutant: the published list is cleared and refilled in place
SharedList(h, published) == published

\* line 142: detected_objects = [] makes a list nothing else refers to
FreshList(h, published) == Len(h) + 1

\* the list with identity id holds s
Store(h, id, s) ==
    IF id \in DOMAIN h THEN [h EXCEPT ![id] = s] ELSE Append(h, s)

\* line 231: max(candidates, key=lambda obj: obj.area) keeps the first of the
\* entries of maximal area
MaxByArea(s) ==
    LET best == {i \in DOMAIN s : \A j \in DOMAIN s : s[j].area <= s[i].area}
    IN  s[Min(best)]

VisionIdle ==
    /\ heap = <<<<>>>>
    /\ detected_objects = 1
    /\ cam_pc = "read"
    /\ cam_list = 0
    /\ cam_todo = <<>>
    /\ frame_no = 0
    /\ frame_lock = "free"
    /\ rd_pc = "idle"
    /\ rd_op = "none"
    /\ rd_arg = ""
    /\ rd_list = 0
    /\ rd_idx = 0
    /\ rd_seen = <<>>
    /\ rd_result = None

(***************************************************************************)
(* ComputerVision.get_object_direction.  threshold = frame_width * 0.1 is  *)
(* compared exactly by scaling both sides by 10.                           *)
(***************************************************************************)
\* mutant: the boundaries of the dead-zone excluded
get_object_direction_open(x, width) ==
    LET frame_center == width \div 2
    IN  IF 10 * x <= 10 * frame_center - width THEN "left"
        ELSE IF 10 * x >= 10 * frame_center + width THEN "right"
        ELSE "center"

get_object_direction(x, width) ==
    LET frame_center == width \div 2
    IN  IF 10 * x < 10 * frame_center - width THEN "left"
        ELSE IF 10 * x > 10 * frame_center + width THEN "right"
        ELSE "center"

FrameWidths == {640, 325, 100}

DirectionIdle ==
    /\ center_x = 0
    /\ frame_width = 640
    /\ direction = "none"

(***************************************************************************)
(* The queries as functions of the list self.detected_objects refers to.   *)
(* An entry is returned by reference: the result is the entry's position   *)
(* in the list, 0 for None.  An entry here also has center, its center[0]. *)
(***************************************************************************)
Detection(name, area, cx) ==
    [name |-> name, area |-> area, frame |-> 1, center |-> cx]

\* str.lower() on the names and queries of the model
LowerName(n) ==
    CASE n = "Person" -> "person"
      [] n = "Red_Ball" -> "red_ball"
      [] OTHER -> LowerWord(n)

\* object_name in obj.name, both as lower() returned them
LowerContains(name, sub) ==
    \/ NameContains(name, sub)
    \/ sub = "ball" /\ name = "blue_ball"

\* mutant: the names are compared as they are
find_object_cased(objs, object_name) ==
    LET hits == {i \in DOMAIN objs : LowerContains(objs[i].name, object_name)}
    IN  IF hits = {} THEN 0 ELSE Min(hits)

\* lines 204-210
find_object(objs, object_name) ==
    LET hits == {i \in DOMAIN objs :
                    LowerContains(LowerName(objs[i].name), LowerName(object_name))}
    IN  IF hits = {} THEN 0 ELSE Min(hits)

\* mutant: max keeps the last of the entries of maximal area
get_largest_object_last(objs, object_type) ==
    LET candidates ==
            IF object_type # ""
            THEN {i \in DOMAIN objs :
                     LowerContains(LowerName(objs[i].name), LowerName(object_type))}
            ELSE DOMAIN objs
        best == {i \in candidates : \A j \in candidates : objs[j].area <= objs[i].area}
    IN  IF candidates = {} THEN 0 ELSE CHOOSE i \in best : \A j \in best : j <= i

\* lines 222-231; object_type "" stands for None and for the empty string,
\* which line 224 treats alike
get_largest_object(objs, object_type) ==
    LET candidates ==
            IF object_type # ""
            THEN {i \in DOMAIN objs :
                     LowerContains(LowerName(objs[i].name), LowerName(object_type))}
            ELSE DOMAIN objs
        best == {i \in candidates : \A j \in candidates : objs[j].area <= objs[i].area}
    IN  IF candidates = {} THEN 0 ELSE Min(best)

(***************************************************************************)
(* RobotController.  A record handed to send_command is the dict without   *)
(* its timestamp.  Durations are in tenths of a second (1.0 s is 10).      *)
(***************************************************************************)
default_speed == 150

turn_duration == 5

move_duration == 10

\* a command's duration in the units of the records
Seconds(n) == n * 10

NoDuration == [some |-> FALSE, val |-> 0]

\* mutant: 'fast' doubles the speed
ScaledSpeedDouble(parameters) ==
    IF "speed" \in DOMAIN parameters
    THEN IF parameters["speed"] \in {"slow", "slowly"}
         THEN (default_speed * 6) \div 10
         ELSE IF parameters["speed"] \in {"fast", "quick", "quickly"}
              THEN default_speed * 2
              ELSE default_speed
    ELSE default_speed

\* lines 107-113; int() truncates, and the float products 150 * 0.6 and
\* 150 * 1.4 are exactly 90.0 and 210.0
ScaledSpeed(parameters) ==
    IF "speed" \in DOMAIN parameters
    THEN IF parameters["speed"] \in {"slow", "slowly"}
         THEN (default_speed * 6) \div 10
         ELSE IF parameters["speed"] \in {"fast", "quick", "quickly"}
              THEN (default_speed * 14) \div 10
              ELSE default_speed
    ELSE default_speed

\* lines 116-120; parameters.get('unit') is None when the key is absent
CommandDuration(parameters) ==
    IF "duration" \in DOMAIN parameters
    THEN [some |-> TRUE,
          val  |-> IF "unit" \in DOMAIN parameters /\ parameters["unit"] = "minute"
                   THEN Seconds(parameters["duration"]) * 60
                   ELSE Seconds(parameters["duration"])]
    ELSE NoDuration

\* duration or default: None and 0 are both false
DurationOr(duration, default) ==
    IF duration.some /\ duration.val # 0 THEN duration.val ELSE default

\* mutant: the two turns drive the wheels the same way
MotorPowersOneTurn(action, speed) ==
    CASE action = MOVE_FORWARD -> <<speed, speed>>
      [] action = MOVE_BACKWARD -> <<-speed, -speed>>
      [] action = TURN_LEFT -> <<speed, -speed>>
      [] action = TURN_RIGHT -> <<speed, -speed>>
      [] OTHER -> <<0, 0>>

\* lines 129-162: left_motor, right_motor of the locomotion actions
MotorPowers(action, speed) ==
    CASE action = MOVE_FORWARD -> <<speed, speed>>
      [] action = MOVE_BACKWARD -> <<-speed, -speed>>
      [] action = TURN_LEFT -> <<-speed, speed>>
      [] action = TURN_RIGHT -> <<speed, -speed>>
      [] OTHER -> <<0, 0>>

LocomotionActions == {MOVE_FORWARD, MOVE_BACKWARD, TURN_LEFT, TURN_RIGHT, STOP}

\* mutant: an object action is sent with the wheel powers of a stop
CommandDataHalting(cmd) ==
    LET speed == ScaledSpeed(cmd.parameters)
        base == ("action" :> cmd.action) @@ ("speed" :> speed)
    IN  ("left_motor" :> 0) @@ ("right_motor" :> 0) @@ ("duration" :> 0) @@ base

\* lines 106-168: the command_data execute_command builds
CommandData(cmd) ==
    LET speed == ScaledSpeed(cmd.parameters)
        duration == CommandDuration(cmd.parameters)
        base == ("action" :> cmd.action) @@ ("speed" :> speed)
        powers == MotorPowers(cmd.action, speed)
        motors == ("left_motor" :> powers[1]) @@ ("right_motor" :> powers[2])
    IN  CASE cmd.action \in {MOVE_FORWARD, MOVE_BACKWARD} ->
                 motors @@ ("duration" :> DurationOr(duration, move_duration)) @@ base
          [] cmd.action \in {TURN_LEFT, TURN_RIGHT} ->
                 motors @@ ("duration" :> DurationOr(duration, turn_duration)) @@ base
          [] cmd.action = STOP ->
                 motors @@ ("duration" :> 0) @@ base
          [] cmd.action \in ObjectActions ->
                 ("object" :> IF "object" \in DOMAIN cmd.parameters
                              THEN cmd.parameters["object"]
                              ELSE "unknown")
                 @@ ("vision_mode" :> "True") @@ base
          [] OTHER -> base

\* operation.arg is history: what the environment did to a connect, and
\* whether the controller was connected when another operation was called
NoOp == [name |-> "none", command |-> NoCommand, arg |-> ""]

Connected == IF is_connected THEN "connected" ELSE "not connected"

\* main_application.py line 42, in seconds
command_timeout == 30

\* time.time() when the application is constructed: some time of this epoch
StartTime == 1000 * command_timeout

\* the components in the order start() brings them up
StartupOrder ==
    <<"robot connection", "camera", "voice listening", "motor calibration",
      "control loop">>

\* main_application.py lines 40-42, voice_recognition.py line 25
LoopIdle ==
    /\ current_mode = "voice_control"
    /\ last_command_time = 0
    /\ now = StartTime
    /\ timer_start = StartTime
    /\ command_queue = <<>>

\* main_application.py lines 36-42: the application as constructed
AppIdle ==
    /\ LoopIdle
    /\ is_running = FALSE
    /\ sys_pc = "new"
    /\ ctl_pc = "none"
    /\ delivered = <<>>
    /\ startup = <<>>

\* the application once start() has returned True, its control loop in an
\* iteration
AppRunning ==
    /\ LoopIdle
    /\ is_running = TRUE
    /\ sys_pc = "running"
    /\ ctl_pc = "body"
    /\ delivered = <<>>
    /\ startup = StartupOrder

ControlIdle ==
    /\ is_connected = FALSE
    /\ operation = NoOp
    /\ handed = <<>>
    /\ wire = <<>>
    /\ result = "none"

\* mutant: send_command does not test is_connected
send_command_untested(command_data, sent, h, w) ==
    /\ handed' = Append(h, command_data)
    /\ wire' = IF sent THEN Append(w, command_data) ELSE w
    /\ is_connected' = (is_connected /\ sent)

\* lines 77-90: the effect of send_command(command_data), called by an
\* operation that has handed h and written w so far; sent tells whether
\* socket.send returned (TRUE) or raised (FALSE)
send_command(command_data, sent, h, w) ==
    /\ handed' = Append(h, command_data)
    /\ wire' = IF is_connected /\ sent THEN Append(w, command_data) ELSE w
    /\ is_connected' = (is_connected /\ sent)

\* lines 77-90: what that call returns
send_command_result(sent) == IF is_connected /\ sent THEN "True" ELSE "False"

\* lines 102-170: the effect of execute_command(cmd)
execute_command(cmd, sent) ==
    IF cmd.action = UNKNOWN
    THEN /\ handed' = <<>>
         /\ wire' = <<>>
         /\ UNCHANGED is_connected
    ELSE send_command(CommandData(cmd), sent, <<>>, <<>>)

\* lines 102-104, 170: what that call returns
execute_command_result(cmd, sent) ==
    IF cmd.action = UNKNOWN THEN "False" ELSE send_command_result(sent)

\* mutant: every command parsed is executed
AcceptedConfidenceAny == 0 - 1

\* main_application.py line 156: a command is executed when its confidence,
\* in tenths, is above this
AcceptedConfidence == 5

(***************************************************************************)
(* The resolver as a state machine: the recognizer produces an utterance   *)
(* word by word, parse_command resolves it, the next utterance starts.     *)
(***************************************************************************)
ObjectVocab ==
    {"go", "back", "left", "find", "search", "for", "the", "ball", "follow",
     "avoid", "to", "xyz", "Ball", PUNCT, WS}

ModifierVocab ==
    {"forward", "find", "xyz", "five", "5", "12", "seconds", "minute", "hours",
     "5seconds", "slowly", "fast", "Slowly", PUNCT}

LocomotionVocab ==
    {"move", "go", "walk", "drive", "forward", "ahead", "straight",
     "backward", "back", "reverse", "turn", "left", "right", "stop", "halt",
     "the"}

\* no call is remembered
NoCall == [text |-> <<>>, command |-> NoCommand, call |-> 0]

ParserInit(v) ==
    /\ vocab = v
    /\ text = <<>>
    /\ command = NoCommand
    /\ command_patterns = CommandPatterns
    /\ known_objects = KnownObjects
    /\ calls = 0
    /\ remembered = NoCall

Init ==
    ParserInit(ObjectVocab) /\ VisionIdle /\ DirectionIdle /\ ControlIdle /\ AppIdle

InitModifiers ==
    ParserInit(ModifierVocab) /\ VisionIdle /\ DirectionIdle /\ ControlIdle /\ AppIdle

InitLocomotion ==
    ParserInit(LocomotionVocab) /\ VisionIdle /\ DirectionIdle /\ ControlIdle /\ AppIdle

Hear(tok) ==
    /\ command = NoCommand
    /\ Len(text) < MaxWords
    /\ text' = Append(text, tok)
    /\ UNCHANGED <<vocab, command, command_patterns, known_objects>>
    /\ UNCHANGED <<calls, remembered>>
    /\ UNCHANGED <<visionVars, directionVars, controlVars, appVars>>

\* mutant: the parser learns every object it is asked for
ParseCommandLearning ==
    /\ command = NoCommand
    /\ command' = parse_command(command_patterns, known_objects, text)
    /\ known_objects' =
           IF "object" \in DOMAIN command'.parameters
           THEN Append(known_objects, command'.parameters["object"])
           ELSE known_objects
    /\ UNCHANGED <<vocab, text, command_patterns>>
    /\ UNCHANGED <<visionVars, directionVars, controlVars, appVars>>

\* a call of parse_command: it reads the parser's tables and assigns none
ParseCommandCall ==
    /\ command = NoCommand
    /\ command' = parse_command(command_patterns, known_objects, text)
    /\ UNCHANGED <<vocab, text, command_patterns, known_objects>>
    /\ UNCHANGED <<visionVars, directionVars, controlVars, appVars>>

ParseCommand == ParseCommandCall /\ UNCHANGED <<calls, remembered>>

NextUtterance ==
    /\ command # NoCommand
    /\ text' = <<>>
    /\ command' = NoCommand
    /\ UNCHANGED <<vocab, command_patterns, known_objects>>
    /\ UNCHANGED <<calls, remembered>>
    /\ UNCHANGED <<visionVars, directionVars, controlVars, appVars>>

Next ==
    \/ \E tok \in vocab : Hear(tok)
    \/ ParseCommand
    \/ NextUtterance

Spec == Init /\ [][Next]_vars

SpecModifiers == InitModifiers /\ [][Next]_vars

SpecLocomotion == InitLocomotion /\ [][Next]_vars

(***************************************************************************)
(* Repeated calls on one parser: the calls are counted and one of them is  *)
(* remembered, to be compared with a later call on the same text.          *)
(***************************************************************************)
RepeatVocab == {"find", "xyz", "stop"}

InitRepeat ==
    ParserInit(RepeatVocab) /\ VisionIdle /\ DirectionIdle /\ ControlIdle /\ AppIdle

CountedParseCommand ==
    /\ calls < MaxCalls
    /\ ParseCommandCall
    /\ calls' = calls + 1
    /\ UNCHANGED remembered

Remember ==
    /\ command # NoCommand
    /\ remembered = NoCall
    /\ remembered' = [text |-> text, command |-> command, call |-> calls]
    /\ UNCHANGED <<vocab, text, command, command_patterns, known_objects, calls>>
    /\ UNCHANGED <<visionVars, directionVars, controlVars, appVars>>

NextRepeat ==
    \/ \E tok \in vocab : Hear(tok)
    \/ CountedParseCommand
    \/ Remember
    \/ NextUtterance

SpecRepeat == InitRepeat /\ [][NextRepeat]_vars

(***************************************************************************)
(* The camera thread (_camera_loop, process_frame) and a reader thread     *)
(* (find_object, get_largest_object), interleaved statement by statement.  *)
(***************************************************************************)
cameraVars == <<cam_pc, cam_list, cam_todo, frame_no, frame_lock>>

readerVars == <<rd_pc, rd_op, rd_arg, rd_list, rd_idx, rd_seen, rd_result>>

\* line 121: cap.read() returns a frame; dets is what detection will find
CameraRead(dets) ==
    /\ cam_pc = "read"
    /\ frame_no < MaxFrames
    /\ frame_no' = frame_no + 1
    /\ cam_todo' = [i \in DOMAIN dets |-> DetectedObject(dets[i], frame_no + 1)]
    /\ cam_pc' = "process"
    /\ UNCHANGED <<heap, detected_objects, cam_list, frame_lock>>
    /\ UNCHANGED <<readerVars, parserVars, directionVars, controlVars, appVars>>

\* line 142: detected_objects = []
ProcessFrameBegin ==
    /\ cam_pc = "process"
    /\ cam_list' = FreshList(heap, detected_objects)
    /\ heap' = Store(heap, cam_list', <<>>)
    /\ cam_pc' = "detect"
    /\ UNCHANGED <<detected_objects, cam_todo, frame_no, frame_lock>>
    /\ UNCHANGED <<readerVars, parserVars, directionVars, controlVars, appVars>>

\* lines 157, 189: detected_objects.append(obj)
ProcessFrameAppend ==
    /\ cam_pc = "detect"
    /\ cam_todo # <<>>
    /\ heap' = Store(heap, cam_list, Append(heap[cam_list], Head(cam_todo)))
    /\ cam_todo' = Tail(cam_todo)
    /\ UNCHANGED <<detected_objects, cam_pc, cam_list, frame_no, frame_lock>>
    /\ UNCHANGED <<readerVars, parserVars, directionVars, controlVars, appVars>>

\* line 192: self.detected_objects = detected_objects
ProcessFramePublish ==
    /\ cam_pc = "detect"
    /\ cam_todo = <<>>
    /\ detected_objects' = cam_list
    /\ cam_list' = 0
    /\ cam_pc' = "read"
    /\ UNCHANGED <<heap, cam_todo, frame_no, frame_lock>>
    /\ UNCHANGED <<readerVars, parserVars, directionVars, controlVars, appVars>>

\* mutant: the query waits for frame_lock, as get_current_frame does
QueryBeginLocked(op, arg) ==
    /\ rd_pc = "idle"
    /\ frame_lock = "free"
    /\ rd_op' = op
    /\ rd_arg' = arg
    /\ rd_list' = detected_objects
    /\ rd_idx' = 1
    /\ rd_seen' = <<>>
    /\ rd_result' = None
    /\ rd_pc' = "iter"
    /\ UNCHANGED <<heap, detected_objects, cameraVars>>
    /\ UNCHANGED <<parserVars, directionVars, controlVars, appVars>>

\* line 206 / line 222: the query reads self.detected_objects once
QueryBegin(op, arg) ==
    /\ rd_pc = "idle"
    /\ rd_op' = op
    /\ rd_arg' = arg
    /\ rd_list' = detected_objects
    /\ rd_idx' = 1
    /\ rd_seen' = <<>>
    /\ rd_result' = None
    /\ rd_pc' = "iter"
    /\ UNCHANGED <<heap, detected_objects, cameraVars>>
    /\ UNCHANGED <<parserVars, directionVars, controlVars, appVars>>

\* lines 206-208 / line 231: the iteration reads the next entry of the list
QueryNext ==
    /\ rd_pc = "iter"
    /\ rd_idx <= Len(heap[rd_list])
    /\ LET obj == heap[rd_list][rd_idx]
       IN  /\ rd_seen' = Append(rd_seen, obj)
           /\ IF rd_op = "find_object" /\ NameContains(obj.name, rd_arg)
              THEN /\ rd_result' = obj
                   /\ rd_pc' = "idle"
                   /\ rd_idx' = rd_idx
              ELSE /\ rd_idx' = rd_idx + 1
                   /\ UNCHANGED <<rd_result, rd_pc>>
    /\ UNCHANGED <<rd_op, rd_arg, rd_list>>
    /\ UNCHANGED <<heap, detected_objects, cameraVars>>
    /\ UNCHANGED <<parserVars, directionVars, controlVars, appVars>>

\* line 210 / lines 228-231: the list is exhausted
QueryEnd ==
    /\ rd_pc = "iter"
    /\ rd_idx > Len(heap[rd_list])
    /\ rd_result' = IF rd_op = "find_object" \/ rd_seen = <<>>
                    THEN None
                    ELSE MaxByArea(rd_seen)
    /\ rd_pc' = "idle"
    /\ UNCHANGED <<rd_op, rd_arg, rd_list, rd_idx, rd_seen>>
    /\ UNCHANGED <<heap, detected_objects, cameraVars>>
    /\ UNCHANGED <<parserVars, directionVars, controlVars, appVars>>

InitVision ==
    /\ ParserInit({})
    /\ VisionIdle
    /\ DirectionIdle
    /\ ControlIdle
    /\ AppIdle

NextVision ==
    \/ \E dets \in SeqsUpTo(DetectionKinds, MaxDetections) : CameraRead(dets)
    \/ ProcessFrameBegin
    \/ ProcessFrameAppend
    \/ ProcessFramePublish
    \/ \E arg \in Queries : QueryBegin("find_object", arg)
    \/ QueryBegin("get_largest_object", "")
    \/ QueryNext
    \/ QueryEnd

SpecVision == InitVision /\ [][NextVision]_vars

(***************************************************************************)
(* The camera thread with its failures and frame_lock: cap.read() can      *)
(* return no frame or raise, the frame read is stored under frame_lock,    *)
(* which get_current_frame takes too.                                      *)
(***************************************************************************)
\* line 121: cap.read() returns a frame; dets is what detection will find
CameraReadFrame(dets) ==
    /\ cam_pc = "read"
    /\ frame_no < MaxFrames
    /\ frame_no' = frame_no + 1
    /\ cam_todo' = [i \in DOMAIN dets |-> DetectedObject(dets[i], frame_no + 1)]
    /\ cam_pc' = "lock"
    /\ UNCHANGED <<heap, detected_objects, cam_list, frame_lock>>
    /\ UNCHANGED <<readerVars, parserVars, directionVars, controlVars, appVars>>

\* line 123: with self.frame_lock, entered when the lock is free
CameraLock ==
    /\ cam_pc = "lock"
    /\ frame_lock = "free"
    /\ frame_lock' = "_camera_loop"
    /\ cam_pc' = "store"
    /\ UNCHANGED <<heap, detected_objects, cam_list, cam_todo, frame_no>>
    /\ UNCHANGED <<readerVars, parserVars, directionVars, controlVars, appVars>>

\* line 124: current_frame is stored, the lock released
CameraStore ==
    /\ cam_pc = "store"
    /\ frame_lock' = "free"
    /\ cam_pc' = "process"
    /\ UNCHANGED <<heap, detected_objects, cam_list, cam_todo, frame_no>>
    /\ UNCHANGED <<readerVars, parserVars, directionVars, controlVars, appVars>>

\* lines 121, 128-133: cap.read() returns ret = False or raises; the loop
\* logs and sleeps
CameraReadFails ==
    /\ cam_pc = "read"
    /\ cam_pc' = "sleep"
    /\ UNCHANGED <<heap, detected_objects, cam_list, cam_todo, frame_no, frame_lock>>
    /\ UNCHANGED <<readerVars, parserVars, directionVars, controlVars, appVars>>

\* lines 129, 133: time.sleep(0.1) returns
CameraWake ==
    /\ cam_pc = "sleep"
    /\ cam_pc' = "read"
    /\ UNCHANGED <<heap, detected_objects, cam_list, cam_todo, frame_no, frame_lock>>
    /\ UNCHANGED <<readerVars, parserVars, directionVars, controlVars, appVars>>

\* line 262: another thread enters get_current_frame's with self.frame_lock
GetCurrentFrameLock ==
    /\ frame_lock = "free"
    /\ frame_lock' = "get_current_frame"
    /\ UNCHANGED <<heap, detected_objects, cam_pc, cam_list, cam_todo, frame_no>>
    /\ UNCHANGED <<readerVars, parserVars, directionVars, controlVars, appVars>>

\* line 263: it returns the copy, the lock is released
GetCurrentFrameReturn ==
    /\ frame_lock = "get_current_frame"
    /\ frame_lock' = "free"
    /\ UNCHANGED <<heap, detected_objects, cam_pc, cam_list, cam_todo, frame_no>>
    /\ UNCHANGED <<readerVars, parserVars, directionVars, controlVars, appVars>>

\* a query is called
QueryCall ==
    \/ QueryBegin("find_object", "ball")
    \/ QueryBegin("get_largest_object", "")

\* the frames of this camera hold no object or one
SparseFrames == {<<>>} \cup {<<kind>> : kind \in DetectionKinds}

\* a query takes its next step
QueryStep == QueryNext \/ QueryEnd

NextCamera ==
    \/ \E dets \in SparseFrames : CameraReadFrame(dets)
    \/ CameraLock
    \/ CameraStore
    \/ CameraReadFails
    \/ CameraWake
    \/ ProcessFrameBegin
    \/ ProcessFrameAppend
    \/ ProcessFramePublish
    \/ GetCurrentFrameLock
    \/ GetCurrentFrameReturn
    \/ QueryCall
    \/ QueryStep

SpecCamera == InitVision /\ [][NextCamera]_vars

(***************************************************************************)
(* get_object_direction applied to every centre of every frame width       *)
(***************************************************************************)
InitDirection ==
    /\ ParserInit({})
    /\ VisionIdle
    /\ frame_width \in FrameWidths
    /\ center_x \in 0..frame_width
    /\ direction = "none"
    /\ ControlIdle
    /\ AppIdle

GetObjectDirection ==
    /\ direction = "none"
    /\ direction' = get_object_direction(center_x, frame_width)
    /\ UNCHANGED <<center_x, frame_width, parserVars, visionVars, controlVars, appVars>>

NextDirection == GetObjectDirection

SpecDirection == InitDirection /\ [][NextDirection]_vars

(***************************************************************************)
(* The controller's operations, called in any order                        *)
(***************************************************************************)
\* the commands parse_command can hand to execute_command: an action, with
\* or without an object, a speed word and a duration with its unit
Durations == {0, 5, 12}

Units == {"second", "minute", "meter"}

Modifiers ==
    LET speeds == {<<>>} \cup {("speed" :> w) : w \in SpeedWords}
        durations == {<<>>} \cup
            {("duration" :> d) @@ ("unit" :> u) : d \in Durations, u \in Units}
    IN  {sp @@ d : sp \in speeds, d \in durations}

Commands ==
    {RobotCommand(a, ps, BaseConfidence) : a \in LocomotionActions, ps \in Modifiers}
    \cup {RobotCommand(a, ("object" :> "ball") @@ ps, KnownConfidence) :
             a \in ObjectActions, ps \in Modifiers}
    \cup {RobotCommand(a, ("object" :> "the") @@ ps, BaseConfidence) :
             a \in ObjectActions, ps \in Modifiers}
    \cup {parse_command(CommandPatterns, KnownObjects, txt) : txt \in {<<"xyz">>, <<>>}}

\* mutant: a failed attempt leaves is_connected as it was
ConnectKeepsFlag(connected) ==
    /\ operation = NoOp
    /\ operation' = [NoOp EXCEPT !.name = "connect",
                                 !.arg = IF connected THEN "succeeds"
                                         ELSE "raises while " \o Connected]
    /\ handed' = <<>>
    /\ wire' = <<>>
    /\ is_connected' = (connected \/ is_connected)
    /\ result' = IF connected THEN "True" ELSE "False"
    /\ UNCHANGED <<parserVars, visionVars, directionVars, appVars>>

\* lines 44-54: connect(); connected tells whether socket() and connect()
\* returned (TRUE) or one of them raised (FALSE)
Connect(connected) ==
    /\ operation = NoOp
    /\ operation' = [NoOp EXCEPT !.name = "connect",
                                 !.arg = IF connected THEN "succeeds"
                                         ELSE "raises while " \o Connected]
    /\ handed' = <<>>
    /\ wire' = <<>>
    /\ is_connected' = connected
    /\ result' = IF connected THEN "True" ELSE "False"
    /\ UNCHANGED <<parserVars, visionVars, directionVars, appVars>>

\* lines 58-64: disconnect()
Disconnect ==
    /\ operation = NoOp
    /\ operation' = [NoOp EXCEPT !.name = "disconnect"]
    /\ handed' = <<>>
    /\ wire' = <<>>
    /\ is_connected' = FALSE
    /\ result' = "none"
    /\ UNCHANGED <<parserVars, visionVars, directionVars, appVars>>

\* lines 102-170: execute_command(cmd)
ExecuteCommand(cmd, sent) ==
    /\ operation = NoOp
    /\ operation' = [name |-> "execute_command", command |-> cmd, arg |-> Connected]
    /\ execute_command(cmd, sent)
    /\ result' = execute_command_result(cmd, sent)
    /\ UNCHANGED <<parserVars, visionVars, directionVars, appVars>>

\* mutant: the emergency stop is sent as an ordinary stop
StopData ==
    ("action" :> STOP) @@ ("left_motor" :> 0) @@ ("right_motor" :> 0)
    @@ ("duration" :> 0)

\* lines 179-185: stop_command
EmergencyStopData ==
    ("action" :> "emergency_stop") @@ ("left_motor" :> 0) @@ ("right_motor" :> 0)
    @@ ("duration" :> 0)

\* lines 179-186: emergency_stop()
EmergencyStop(sent) ==
    /\ operation = NoOp
    /\ operation' = [NoOp EXCEPT !.name = "emergency_stop", !.arg = Connected]
    /\ send_command(EmergencyStopData, sent, <<>>, <<>>)
    /\ result' = send_command_result(sent)
    /\ UNCHANGED <<parserVars, visionVars, directionVars, appVars>>

\* the caller has taken the result; the next operation can be called
Return ==
    /\ operation # NoOp
    /\ operation' = NoOp
    /\ handed' = <<>>
    /\ wire' = <<>>
    /\ result' = "none"
    /\ UNCHANGED is_connected
    /\ UNCHANGED <<parserVars, visionVars, directionVars, appVars>>

InitController ==
    /\ ParserInit({})
    /\ VisionIdle
    /\ DirectionIdle
    /\ ControlIdle
    /\ AppIdle

NextController ==
    \/ \E connected \in BOOLEAN : Connect(connected)
    \/ Disconnect
    \/ \E cmd \in Commands, sent \in BOOLEAN : ExecuteCommand(cmd, sent)
    \/ \E sent \in BOOLEAN : EmergencyStop(sent)
    \/ Return

SpecController == InitController /\ [][NextController]_vars

(***************************************************************************)
(* The queries called on a stored snapshot.  Here rd_idx is the position   *)
(* of the entry returned and rd_seen the list as the query found it.       *)
(***************************************************************************)
\* what a snapshot can hold: detections of process_frame, and entries a
\* caller stored itself, whose names need not be lower case
Detections ==
    { Detection("person", 4800, 100),
      Detection("person", 8000, 320),
      Detection("Person", 9000, 256),
      Detection("red_ball", 900, 320),
      Detection("red_ball", 10000, 384),
      Detection("red_ball", 9000, 600),
      Detection("blue_ball", 7999, 320) }

ObjectNames == {"ball", "Ball", "person", "red", "car", ""}

\* the vision module with snap stored as its snapshot
VisionWith(snap) ==
    /\ heap = <<snap>>
    /\ detected_objects = 1
    /\ cam_pc = "read"
    /\ cam_list = 0
    /\ cam_todo = <<>>
    /\ frame_no = 0
    /\ frame_lock = "free"
    /\ rd_pc = "idle"
    /\ rd_op = "none"
    /\ rd_arg = ""
    /\ rd_list = 0
    /\ rd_idx = 0
    /\ rd_seen = <<>>
    /\ rd_result = None

snapshot == heap[detected_objects]

\* the entry a query returned, None for position 0
Entry(objs, i) == IF i = 0 THEN None ELSE objs[i]

\* lines 194-210: find_object(object_name), as one step
FindObjectCall(object_name) ==
    /\ rd_op' = "find_object"
    /\ rd_arg' = object_name
    /\ rd_list' = detected_objects
    /\ rd_idx' = find_object(snapshot, object_name)
    /\ rd_result' = Entry(snapshot, rd_idx')
    /\ rd_seen' = snapshot
    /\ UNCHANGED <<rd_pc, heap, detected_objects>>
    /\ UNCHANGED <<cameraVars, parserVars, directionVars, controlVars, appVars>>

\* lines 212-231: get_largest_object(object_type), as one step
GetLargestObjectCall(object_type) ==
    /\ rd_op' = "get_largest_object"
    /\ rd_arg' = object_type
    /\ rd_list' = detected_objects
    /\ rd_idx' = get_largest_object(snapshot, object_type)
    /\ rd_result' = Entry(snapshot, rd_idx')
    /\ rd_seen' = snapshot
    /\ UNCHANGED <<rd_pc, heap, detected_objects>>
    /\ UNCHANGED <<cameraVars, parserVars, directionVars, controlVars, appVars>>

InitQueries ==
    /\ ParserInit({})
    /\ \E snap \in SeqsUpTo(Detections, MaxDetections) : VisionWith(snap)
    /\ DirectionIdle
    /\ ControlIdle
    /\ AppIdle

NextQueries ==
    \/ \E object_name \in ObjectNames : FindObjectCall(object_name)
    \/ \E object_type \in ObjectNames : GetLargestObjectCall(object_type)

SpecQueries == InitQueries /\ [][NextQueries]_vars

(***************************************************************************)
(* VoiceControlledRobot: the two handlers of the control loop, on a stored *)
(* snapshot.  A handler decides the calls of _move_robot it makes, each a  *)
(* pair <<action, duration>>.                                              *)
(***************************************************************************)
DefaultFrameWidth == 640

\* mutant: one proximity threshold for both modes
FollowProximityShared == 10 * 1000

FollowProximity == 8000

AutonomousProximity == 10000

\* _move_robot's default duration
MoveRobotDuration == 10

\* mutant: turn_right drives the wheels as turn_left does
MoveRobotDataMirrored(action, duration) ==
    ("action" :> action) @@ ("duration" :> duration) @@
    CASE action = "move_forward" -> ("left_motor" :> 150) @@ ("right_motor" :> 150)
      [] action = "move_backward" -> ("left_motor" :> -150) @@ ("right_motor" :> -150)
      [] action \in {"turn_left", "turn_right"} ->
             ("left_motor" :> -150) @@ ("right_motor" :> 150)
      [] action = "stop" -> ("left_motor" :> 0) @@ ("right_motor" :> 0)
      [] OTHER -> <<>>

\* lines 252-267: _move_robot's command_data
MoveRobotData(action, duration) ==
    ("action" :> action) @@ ("duration" :> duration) @@
    CASE action = "move_forward" -> ("left_motor" :> 150) @@ ("right_motor" :> 150)
      [] action = "move_backward" -> ("left_motor" :> -150) @@ ("right_motor" :> -150)
      [] action = "turn_left" -> ("left_motor" :> -150) @@ ("right_motor" :> 150)
      [] action = "turn_right" -> ("left_motor" :> 150) @@ ("right_motor" :> -150)
      [] action = "stop" -> ("left_motor" :> 0) @@ ("right_motor" :> 0)
      [] OTHER -> <<>>

\* lines 210-248: _handle_vision_command(command)
handle_vision_command(objs, cmd) ==
    LET object_name == IF "object" \in DOMAIN cmd.parameters
                       THEN cmd.parameters["object"]
                       ELSE ""
        found_object == find_object(objs, object_name)
        dir == get_object_direction(objs[found_object].center, DefaultFrameWidth)
    IN  IF cmd.action = FIND_OBJECT
        THEN IF found_object # 0
             THEN IF dir = "left" THEN << <<"turn_left", 5>> >>
                  ELSE IF dir = "right" THEN << <<"turn_right", 5>> >>
                  ELSE <<>>
             ELSE << <<"turn_right", 10>> >>
        ELSE IF cmd.action = FOLLOW_OBJECT
        THEN IF found_object # 0
             THEN IF dir = "left" THEN << <<"turn_left", 3>> >>
                  ELSE IF dir = "right" THEN << <<"turn_right", 3>> >>
                  ELSE IF objs[found_object].area < FollowProximity
                       THEN << <<"move_forward", 5>> >>
                       ELSE << <<"stop", MoveRobotDuration>> >>
             ELSE << <<"turn_right", 5>> >>
        ELSE <<>>

\* mutant: nothing is sent once the object is near
handle_autonomous_mode_silent(objs) ==
    LET largest_object == get_largest_object(objs, "")
        dir == get_object_direction(objs[largest_object].center, DefaultFrameWidth)
    IN  IF largest_object # 0
        THEN IF dir = "left" THEN << <<"turn_left", 2>> >>
             ELSE IF dir = "right" THEN << <<"turn_right", 2>> >>
             ELSE IF objs[largest_object].area < AutonomousProximity
                  THEN << <<"move_forward", 5>> >>
                  ELSE <<>>
        ELSE << <<"turn_right", 3>> >>

\* lines 170-189: the directive of _handle_autonomous_mode
handle_autonomous_mode(objs) ==
    LET largest_object == get_largest_object(objs, "")
        dir == get_object_direction(objs[largest_object].center, DefaultFrameWidth)
    IN  IF largest_object # 0
        THEN IF dir = "left" THEN << <<"turn_left", 2>> >>
             ELSE IF dir = "right" THEN << <<"turn_right", 2>> >>
             ELSE IF objs[largest_object].area < AutonomousProximity
                  THEN << <<"move_forward", 5>> >>
                  ELSE << <<"stop", MoveRobotDuration>> >>
        ELSE << <<"turn_right", 3>> >>

\* lines 250-269: the calls of _move_robot a handler makes, each ending in
\* one send_command whose result is dropped
MoveRobot(moves, sent) ==
    IF moves = <<>>
    THEN /\ handed' = <<>>
         /\ wire' = <<>>
         /\ UNCHANGED is_connected
    ELSE send_command(MoveRobotData(moves[1][1], moves[1][2]), sent, <<>>, <<>>)

\* what the recognizer can have queued
Utterances ==
    { <<"find", "ball">>, <<"find", "the", "ball">>, <<"find", "person">>,
      <<"find", "car">>, <<"follow", "Ball">>, <<"follow", "person">>,
      <<"follow", "car">>, <<"avoid", "ball">>, <<"stop">>, <<"forward">>,
      <<"xyz">> }

\* mutant: get_command looks at the head of the queue and leaves it there
get_command_peek(queue) ==
    IF queue = <<>>
    THEN [text |-> <<>>, queue |-> queue]
    ELSE [text |-> Head(queue), queue |-> queue]

\* voice_recognition.py lines 97-100: get_command(timeout); the text is <<>>
\* for None, returned when the queue stays empty for the timeout
get_command(queue) ==
    IF queue = <<>>
    THEN [text |-> <<>>, queue |-> queue]
    ELSE [text |-> Head(queue), queue |-> Tail(queue)]

\* voice_recognition.py lines 72-78: the listening thread queues a text
Listen(txt) ==
    /\ Len(command_queue) < MaxQueue
    /\ command_queue' = Append(command_queue, txt)
    /\ UNCHANGED <<current_mode, last_command_time, now, timer_start>>
    /\ UNCHANGED <<parserVars, visionVars, directionVars, controlVars, lifeVars>>

\* the same, a text being heard only once the last one has been taken
ListenNext(txt) == command_queue = <<>> /\ Listen(txt)

\* the granularity of the clock, in seconds
TickSeconds == command_timeout \div 3

\* time passes between two iterations of the control loop
Tick ==
    /\ operation = NoOp
    /\ now < StartTime + MaxTicks * TickSeconds
    /\ now' = now + TickSeconds
    /\ UNCHANGED <<current_mode, last_command_time, timer_start, command_queue>>
    /\ UNCHANGED <<parserVars, visionVars, directionVars, controlVars, lifeVars>>

\* lines 145-165 with 198-206: _handle_voice_control; sent is what
\* socket.send does
VoiceControlStep ==
    /\ current_mode = "voice_control"
    /\ operation = NoOp
    /\ \E got \in {get_command(command_queue)} :
       \E cmd \in {IF got.text # <<>>
                   THEN parse_command(command_patterns, known_objects, got.text)
                   ELSE NoCommand} :
       \E accepted \in {got.text # <<>> /\ cmd.confidence > AcceptedConfidence} :
       \E sent \in BOOLEAN :
           /\ command_queue' = got.queue
           /\ operation' = [name |-> "_handle_voice_control",
                            command |-> cmd,
                            arg |-> Connected]
           /\ IF ~accepted
              THEN /\ handed' = <<>>
                   /\ wire' = <<>>
                   /\ UNCHANGED is_connected
              ELSE IF cmd.action \in {FIND_OBJECT, FOLLOW_OBJECT}
                   THEN MoveRobot(handle_vision_command(snapshot, cmd), sent)
                   ELSE execute_command(cmd, sent)
           /\ last_command_time' = IF accepted THEN now ELSE last_command_time
           /\ timer_start' = IF accepted THEN now ELSE timer_start
           /\ current_mode' = IF now - last_command_time' > command_timeout
                              THEN "autonomous"
                              ELSE current_mode
    /\ result' = "none"
    /\ UNCHANGED now
    /\ UNCHANGED <<parserVars, visionVars, directionVars>>

\* lines 167-196: _handle_autonomous_mode
AutonomousStep(sent) ==
    /\ current_mode = "autonomous"
    /\ operation = NoOp
    /\ operation' = [NoOp EXCEPT !.name = "_handle_autonomous_mode", !.arg = Connected]
    /\ MoveRobot(handle_autonomous_mode(snapshot), sent)
    /\ \E got \in {get_command(command_queue)} :
           /\ command_queue' = got.queue
           /\ current_mode' = IF got.text # <<>> THEN "voice_control" ELSE current_mode
           /\ last_command_time' = IF got.text # <<>> THEN now ELSE last_command_time
           /\ timer_start' = IF got.text # <<>> THEN now ELSE timer_start
    /\ result' = "none"
    /\ UNCHANGED now
    /\ UNCHANGED <<parserVars, visionVars, directionVars>>

\* lines 132-136: an iteration of the loop of a running system
HandleVoiceControl == VoiceControlStep /\ UNCHANGED lifeVars

HandleAutonomousMode(sent) == AutonomousStep(sent) /\ UNCHANGED lifeVars

InitPolicy ==
    /\ ParserInit({})
    /\ \E snap \in SeqsUpTo(Detections, MaxDetections) : VisionWith(snap)
    /\ DirectionIdle
    /\ ControlIdle
    /\ AppRunning

NextPolicy ==
    \/ \E connected \in BOOLEAN : Connect(connected)
    \/ \E txt \in Utterances : ListenNext(txt)
    \/ HandleVoiceControl
    \/ \E sent \in BOOLEAN : HandleAutonomousMode(sent)
    \/ Return

SpecPolicy == InitPolicy /\ [][NextPolicy]_vars

(***************************************************************************)
(* The control loop with its clock: time passes between the iterations,    *)
(* the recognizer queues texts, the handler of the current mode runs.      *)
(***************************************************************************)
LoopUtterances == {<<"stop">>, <<"find", "ball">>, <<"xyz">>}

LoopSnapshots == {<<>>, <<Detection("red_ball", 900, 320)>>}

InitLoop ==
    /\ ParserInit({})
    /\ \E snap \in LoopSnapshots : VisionWith(snap)
    /\ DirectionIdle
    /\ ControlIdle
    /\ AppRunning

NextLoop ==
    \/ \E connected \in BOOLEAN : Connect(connected)
    \/ \E txt \in LoopUtterances : Listen(txt)
    \/ Tick
    \/ HandleVoiceControl
    \/ \E sent \in BOOLEAN : HandleAutonomousMode(sent)
    \/ Return

SpecLoop == InitLoop /\ [][NextLoop]_vars

(***************************************************************************)
(* The life of the system: start(), the control-loop thread it starts, and *)
(* stop() called by the thread that called start(), statement by           *)
(* statement.                                                              *)
(***************************************************************************)
\* robot_controller.py lines 220-224
CalibrationSequence ==
    << ("action" :> "calibrate") @@ ("motor" :> "left") @@ ("speed" :> default_speed),
       ("action" :> "calibrate") @@ ("motor" :> "right") @@ ("speed" :> default_speed),
       ("action" :> "calibrate") @@ ("motor" :> "both") @@ ("speed" :> 0) >>

\* the last two of the records written so far
LastTwo(s) == IF Len(s) <= 2 THEN s ELSE SubSeq(s, Len(s) - 1, Len(s))

\* the records written to the socket by the step are the last delivered
Deliver == delivered' = LastTwo(delivered \o wire')

\* robot_controller.py lines 226-232: calibrate_motors() of a connected
\* controller; writes is the number of sends that return before one raises
calibrate_motors(writes) ==
    /\ handed' = SubSeq(CalibrationSequence, 1,
                        IF writes < Len(CalibrationSequence)
                        THEN writes + 1
                        ELSE writes)
    /\ wire' = SubSeq(CalibrationSequence, 1, writes)
    /\ is_connected' = (writes = Len(CalibrationSequence))

\* main_application.py lines 63-104: start().  loaded, connected and opened
\* tell whether VoiceRecognizer() returned, connect() and start_camera()
\* returned True; writes is what the sends of calibrate_motors() do
Start(loaded, connected, opened, writes) ==
    /\ sys_pc = "new"
    /\ operation = NoOp
    /\ LET ok == loaded /\ connected /\ opened
       IN  /\ operation' = [NoOp EXCEPT !.name = "start",
                                        !.arg = IF ~loaded THEN "no recognizer"
                                                ELSE IF ~connected THEN "no connection"
                                                ELSE IF ~opened THEN "no camera"
                                                ELSE "components started"]
           /\ IF ok
              THEN calibrate_motors(writes)
              ELSE /\ handed' = <<>>
                   /\ wire' = <<>>
                   /\ is_connected' = IF loaded THEN connected ELSE is_connected
           /\ startup' = IF ok THEN StartupOrder
                         ELSE IF loaded /\ connected THEN <<"robot connection">>
                         ELSE <<>>
           /\ is_running' = ok
           /\ ctl_pc' = IF ok THEN "test" ELSE "none"
           /\ sys_pc' = IF ok THEN "running" ELSE "failed"
           /\ result' = IF ok THEN "True" ELSE "False"
    /\ Deliver
    /\ UNCHANGED <<loopVars, parserVars, visionVars, directionVars>>

\* lines 132: while self.is_running
LoopTest ==
    /\ ctl_pc = "test"
    /\ ctl_pc' = IF is_running THEN "body" ELSE "done"
    /\ UNCHANGED <<is_running, sys_pc, delivered, startup>>
    /\ UNCHANGED <<loopVars, parserVars, visionVars, directionVars, controlVars>>

\* lines 134-139: one iteration handles the current mode
LoopBody ==
    /\ ctl_pc = "body"
    /\ VoiceControlStep \/ \E sent \in BOOLEAN : AutonomousStep(sent)
    /\ ctl_pc' = "test"
    /\ Deliver
    /\ UNCHANGED <<is_running, sys_pc, startup>>

\* voice_recognition.py lines 69-78: the listening thread, which start()
\* starts and stop() joins
ListenRunning(txt) == sys_pc = "running" /\ Listen(txt)

\* lines 110-116: stop() clears is_running and stops the recognizer and
\* the camera
StopRunning ==
    /\ sys_pc = "running"
    /\ is_running' = FALSE
    /\ sys_pc' = "emergency_stop"
    /\ UNCHANGED <<ctl_pc, delivered, startup>>
    /\ UNCHANGED <<loopVars, parserVars, visionVars, directionVars, controlVars>>

\* line 119: stop() calls emergency_stop()
StopEmergency(sent) ==
    /\ sys_pc = "emergency_stop"
    /\ operation = NoOp
    /\ operation' = [NoOp EXCEPT !.name = "emergency_stop", !.arg = Connected]
    /\ send_command(EmergencyStopData, sent, <<>>, <<>>)
    /\ result' = send_command_result(sent)
    /\ sys_pc' = "disconnect"
    /\ Deliver
    /\ UNCHANGED <<is_running, ctl_pc, startup>>
    /\ UNCHANGED <<loopVars, parserVars, visionVars, directionVars>>

\* line 120: stop() calls disconnect()
StopDisconnect ==
    /\ sys_pc = "disconnect"
    /\ operation = NoOp
    /\ operation' = [NoOp EXCEPT !.name = "disconnect"]
    /\ handed' = <<>>
    /\ wire' = <<>>
    /\ is_connected' = FALSE
    /\ result' = "none"
    /\ sys_pc' = "join"
    /\ UNCHANGED <<is_running, ctl_pc, delivered, startup>>
    /\ UNCHANGED <<loopVars, parserVars, visionVars, directionVars>>

\* lines 123-126: join(timeout=2.0) returns, the thread finished or not
StopJoin ==
    /\ sys_pc = "join"
    /\ sys_pc' = "stopped"
    /\ UNCHANGED <<is_running, ctl_pc, delivered, startup>>
    /\ UNCHANGED <<loopVars, parserVars, visionVars, directionVars, controlVars>>

InitLife ==
    /\ ParserInit({})
    /\ VisionIdle
    /\ DirectionIdle
    /\ ControlIdle
    /\ AppIdle

NextLife ==
    \/ \E loaded \in BOOLEAN, connected \in BOOLEAN, opened \in BOOLEAN,
          writes \in 0..Len(CalibrationSequence) :
           Start(loaded, connected, opened, writes)
    \/ LoopTest
    \/ LoopBody
    \/ \E txt \in LoopUtterances : ListenRunning(txt)
    \/ StopRunning
    \/ \E sent \in BOOLEAN : StopEmergency(sent)
    \/ StopDisconnect
    \/ StopJoin
    \/ Return

SpecLife == InitLife /\ [][NextLife]_vars

(***************************************************************************)
(* Every way to the transport: the handlers of the control loop and the    *)
(* operations of the controller called directly.                           *)
(***************************************************************************)
TransportCommands ==
    {parse_command(CommandPatterns, KnownObjects, txt) : txt \in LoopUtterances}

NextTransport ==
    \/ NextLoop
    \/ \E cmd \in TransportCommands, sent \in BOOLEAN : ExecuteCommand(cmd, sent)
    \/ \E sent \in BOOLEAN : EmergencyStop(sent)

SpecTransport == InitLoop /\ [][NextTransport]_vars

(***************************************************************************)
(* command_parser.py, get_action_description: the description of a command *)
(* parse_command has returned.  A missing dictionary key is the result     *)
(* "KeyError".                                                             *)
(***************************************************************************)
DescribeVocab ==
    {"forward", "find", "follow", "avoid", "ball", "xyz", "5", "seconds",
     "5seconds", "minute", "slowly", "stop"}

\* params.get(key, default)
Get(params, key, default) == IF key \in DOMAIN params THEN params[key] ELSE default

\* lines 175-185: the descriptions dictionary
descriptions(params) ==
    (MOVE_FORWARD :> "Move forward") @@ (MOVE_BACKWARD :> "Move backward")
    @@ (TURN_LEFT :> "Turn left") @@ (TURN_RIGHT :> "Turn right")
    @@ (STOP :> "Stop")
    @@ (FIND_OBJECT :> "Find " \o Get(params, "object", "object"))
    @@ (FOLLOW_OBJECT :> "Follow " \o Get(params, "object", "object"))
    @@ (AVOID_OBSTACLE :> "Avoid " \o Get(params, "object", "obstacle"))
    @@ (UNKNOWN :> "Unknown command")

\* mutant: the speed is not appended
get_action_description_plain(cmd) ==
    LET params == cmd.parameters
        description == Get(descriptions(params), cmd.action, "Unknown action")
    IN  [description |->
             IF "duration" \in DOMAIN params
             THEN IF "unit" \in DOMAIN params
                  THEN description \o " for " \o ToString(params["duration"])
                       \o " " \o params["unit"] \o "s"
                  ELSE "KeyError"
             ELSE description,
         command |-> cmd]

\* lines 172-192: the string returned, and the command as the call leaves it
get_action_description(cmd) ==
    LET params == cmd.parameters
        description == Get(descriptions(params), cmd.action, "Unknown action")
        with_speed == IF "speed" \in DOMAIN params
                      THEN description \o " (" \o params["speed"] \o ")"
                      ELSE description
    IN  [description |->
             IF "duration" \in DOMAIN params
             THEN IF "unit" \in DOMAIN params
                  THEN with_speed \o " for " \o ToString(params["duration"])
                       \o " " \o params["unit"] \o "s"
                  ELSE "KeyError"
             ELSE with_speed,
         command |-> cmd]

\* get_action_description(command) on the command parse_command returned
GetActionDescription ==
    /\ command # NoCommand
    /\ operation = NoOp
    /\ \E described \in {get_action_description(command)} :
           /\ operation' = [name |-> "get_action_description",
                            command |-> command, arg |-> ""]
           /\ result' = described.description
           /\ command' = described.command
    /\ handed' = <<>>
    /\ wire' = <<>>
    /\ UNCHANGED <<vocab, text, command_patterns, known_objects, calls, remembered>>
    /\ UNCHANGED <<is_connected, visionVars, directionVars, appVars>>

InitDescribe ==
    ParserInit(DescribeVocab) /\ VisionIdle /\ DirectionIdle /\ ControlIdle /\ AppIdle

NextDescribe ==
    \/ \E tok \in vocab : Hear(tok)
    \/ ParseCommand
    \/ GetActionDescription
    \/ Return
    \/ operation = NoOp /\ NextUtterance

SpecDescribe == InitDescribe /\ [][NextDescribe]_vars

(***************************************************************************)
(* Properties                                                              *)
(***************************************************************************)
Resolved == command # NoCommand

\* the text parse_command works on, and its word and punctuation tokens
NormalText == Strip(Lower(text))

Words == Tokens(NormalText)

HasObject(x) ==
    /\ "object" \in DOMAIN command.parameters
    /\ command.parameters["object"] = x

\* the enumeration order of RobotAction, UNKNOWN left out
ActionOrder ==
    <<MOVE_FORWARD, MOVE_BACKWARD, TURN_LEFT, TURN_RIGHT, STOP,
      FIND_OBJECT, FOLLOW_OBJECT, AVOID_OBSTACLE>>

\* some pattern of the a-th action of the table matches
PatternMatches(a, toks) ==
    \E p \in DOMAIN CommandPatterns[a].patterns :
        Search(CommandPatterns[a].patterns[p], toks).ok

MatchingActions(toks) == {a \in DOMAIN CommandPatterns : PatternMatches(a, toks)}

(* C1: a query (find_object, get_largest_object) iterates one list, which  *)
(* is never the list process_frame is still filling, and every entry it    *)
(* reads is an entry of that list, all of them detections of one frame:    *)
(* no query observes a mix of two frames' detections.                      *)
C1_QueryReadsOneFrame ==
    rd_list # 0 =>
        /\ rd_list # cam_list
        /\ \A i \in DOMAIN rd_seen : rd_seen[i] = heap[rd_list][i]
        /\ \A i, j \in DOMAIN rd_seen : rd_seen[i].frame = rd_seen[j].frame
        /\ \A i, j \in DOMAIN heap[rd_list] :
               heap[rd_list][i].frame = heap[rd_list][j].frame

\* a query has read an entry and has more to read while the camera thread
\* has replaced the snapshot by a later frame's
C1_Witness ==
    /\ rd_pc = "iter"
    /\ Len(rd_seen) >= 1
    /\ rd_idx <= Len(heap[rd_list])
    /\ detected_objects # rd_list
    /\ heap[detected_objects] # <<>>

(* C2: 'find the X', 'search for X', 'follow the X', 'avoid the X' with X  *)
(* a known object resolve to FindObject, FindObject, FollowObject,         *)
(* AvoidObstacle with parameters['object'] = X and confidence 0.9.         *)
C2_ObjectOfArticlePhrase ==
    Resolved /\ Len(Words) = 3 /\ Words[3] \in Range(KnownObjects) =>
        LET Expect(w1, w2, a) ==
                Words[1] = w1 /\ Words[2] = w2 =>
                    /\ command.action = a
                    /\ HasObject(Words[3])
                    /\ command.confidence = 9
        IN  /\ Expect("find", "the", FIND_OBJECT)
            /\ Expect("search", "for", FIND_OBJECT)
            /\ Expect("follow", "the", FOLLOW_OBJECT)
            /\ Expect("avoid", "the", AVOID_OBSTACLE)

(* C3: for empty or whitespace-only text, and for every text no action     *)
(* pattern matches, parse_command returns UNKNOWN with confidence 0; the   *)
(* parameters are empty for empty text and exactly original_text = the     *)
(* lower-cased trimmed text otherwise.                                     *)
C3_UnparseableIsUnknown ==
    Resolved =>
        /\ NormalText = <<>> =>
               command = [action |-> UNKNOWN, parameters |-> <<>>, confidence |-> 0]
        /\ NormalText # <<>> /\ MatchingActions(Words) = {} =>
               /\ command.action = UNKNOWN
               /\ command.confidence = 0
               /\ DOMAIN command.parameters = {"original_text"}
               /\ command.parameters["original_text"] = NormalText

\* an unmatched text that had to be trimmed and lower-cased
C3_Witness ==
    /\ Resolved
    /\ command.action = UNKNOWN
    /\ text = <<WS, "Ball", "xyz">>
    /\ command.parameters = [original_text |-> <<"ball", "xyz">>]

(* C4: every '<move|go|walk|drive> <forward|ahead|straight>' resolves to   *)
(* MoveForward, every '<move|go|walk|drive> <backward|back|reverse>' to    *)
(* MoveBackward, 'turn left' / 'turn right' to TurnLeft / TurnRight and    *)
(* 'stop' / 'halt' to Stop, each with confidence >= 0.8.                   *)
C4_LocomotionPhrasings ==
    Resolved =>
        LET Is(a) == command.action = a /\ command.confidence >= 8
            Verb(w) == w \in {"move", "go", "walk", "drive"}
        IN  /\ Len(Words) = 2 /\ Verb(Words[1])
                 /\ Words[2] \in {"forward", "ahead", "straight"}
               => Is(MOVE_FORWARD)
            /\ Len(Words) = 2 /\ Verb(Words[1])
                 /\ Words[2] \in {"backward", "back", "reverse"}
               => Is(MOVE_BACKWARD)
            /\ Words = <<"turn", "left">> => Is(TURN_LEFT)
            /\ Words = <<"turn", "right">> => Is(TURN_RIGHT)
            /\ Words \in {<<"stop">>, <<"halt">>} => Is(STOP)

C4_Witness ==
    /\ Resolved
    /\ text = <<"drive", "straight">>
    /\ command.action = MOVE_FORWARD

(* C5: the result's action is that of the first action, in the order       *)
(* MoveForward, MoveBackward, TurnLeft, TurnRight, Stop, FindObject,       *)
(* FollowObject, AvoidObstacle, one of whose patterns matches; an object   *)
(* is the one captured by the first matching pattern of that action.       *)
C5_FirstMatchWins ==
    Resolved /\ MatchingActions(Words) # {} =>
        LET a == Min(MatchingActions(Words))
            pats == CommandPatterns[a].patterns
            p == Min({q \in DOMAIN pats : Search(pats[q], Words).ok})
        IN  /\ command.action = ActionOrder[a]
            /\ \A b \in MatchingActions(Words) : command.action = ActionOrder[b] \/ a < b
            /\ "object" \in DOMAIN command.parameters =>
                   command.parameters["object"] = Last(Search(pats[p], Words).groups)

\* 'find ball left' matches FindObject and TurnLeft and resolves to TurnLeft
C5_Witness ==
    /\ Resolved
    /\ text = <<"find", "ball", "left">>
    /\ MatchingActions(Words) = {3, 6}
    /\ command.action = TURN_LEFT

\* an expression <integer><unit> starts at token i: the integer and the
\* unit as two words, or written together as one ("5seconds")
DurationExprAt(toks, i) ==
    \/ /\ toks[i] \in DOMAIN IntValue
       /\ i < Len(toks)
       /\ toks[i + 1] \in DOMAIN UnitStem
    \/ /\ DigitSplit(toks[i])[1] # ""
       /\ DigitSplit(toks[i])[2] \in DOMAIN UnitStem

ExprInteger(toks, i) == IntValue[DigitSplit(toks[i])[1]]

ExprUnit(toks, i) ==
    IF toks[i] \in DOMAIN IntValue
    THEN UnitStem[toks[i + 1]]
    ELSE UnitStem[DigitSplit(toks[i])[2]]

(* C6: for a text that resolves to an action other than UNKNOWN, duration  *)
(* and unit are present exactly when the text contains an integer followed *)
(* by a unit (second, minute, meter, step, singular or plural; with or     *)
(* without whitespace between them); duration is then the integer of the   *)
(* first such expression and unit the singular form.  A number spelled in  *)
(* words leaves both keys absent.                                          *)
C6_DurationModifier ==
    Resolved /\ command.action # UNKNOWN =>
        LET at == {i \in DOMAIN Words : DurationExprAt(Words, i)}
            keys == DOMAIN command.parameters
        IN  IF at = {}
            THEN "duration" \notin keys /\ "unit" \notin keys
            ELSE /\ "duration" \in keys
                 /\ "unit" \in keys
                 /\ command.parameters["duration"] = ExprInteger(Words, Min(at))
                 /\ command.parameters["unit"] = ExprUnit(Words, Min(at))

C6_Witness ==
    /\ Resolved
    /\ text = <<"forward", "5", "seconds">>
    /\ command.action = MOVE_FORWARD
    /\ command.parameters = [duration |-> 5, unit |-> "second"]

\* the malformed case: a number spelled in words
C6_MalformedWitness ==
    /\ Resolved
    /\ text = <<"forward", "five", "seconds">>
    /\ command.parameters = <<>>

SpeedVocabulary == {"slow", "slowly", "fast", "quick", "quickly"}

(* C7: for a text that resolves to an action other than UNKNOWN, speed is  *)
(* present exactly when the (lower-cased) text contains one of the words   *)
(* slow, slowly, fast, quick, quickly, and is the first such word, in the  *)
(* form it has in the text; the action is still that of the first matching *)
(* action and the confidence still 0.9 for a known captured object and 0.8 *)
(* otherwise.                                                              *)
C7_SpeedModifier ==
    Resolved /\ command.action # UNKNOWN =>
        LET at == {i \in DOMAIN Words : Words[i] \in SpeedVocabulary}
        IN  /\ "speed" \in DOMAIN command.parameters <=> at # {}
            /\ at # {} => command.parameters["speed"] = Words[Min(at)]
            /\ command.action = ActionOrder[Min(MatchingActions(Words))]
            /\ command.confidence =
                   IF /\ command.action \in ObjectActions
                      /\ "object" \in DOMAIN command.parameters
                      /\ command.parameters["object"] \in Range(KnownObjects)
                   THEN 9 ELSE 8

\* two speed words: the first one is kept, as 'slowly', not as 'slow'
C7_Witness ==
    /\ Resolved
    /\ text = <<"forward", "Slowly", "fast">>
    /\ command = [action |-> MOVE_FORWARD,
                  parameters |-> [speed |-> "slowly"],
                  confidence |-> 8]

(* C8: every command parse_command returns has its confidence in [0, 1]    *)
(* (0..10 tenths), and confidence 0 when its action is UNKNOWN.            *)
C8_ConfidenceRange ==
    Resolved =>
        /\ command.confidence \in 0..10
        /\ command.action = UNKNOWN => command.confidence = 0

\* an unmatched text has been resolved to UNKNOWN with confidence 0
C8_Witness ==
    /\ Resolved
    /\ text = <<"xyz", "ball">>
    /\ command.action = UNKNOWN
    /\ command.confidence = 0

(* C9: no call of parse_command changes the pattern table or the known     *)
(* objects, and a call on the text of a remembered earlier call returns    *)
(* a command equal to the remembered one, whatever was parsed in between.  *)
C9_RepeatedCallsAgree ==
    /\ command_patterns = CommandPatterns
    /\ known_objects = KnownObjects
    /\ Resolved /\ remembered # NoCall /\ text = remembered.text =>
           command = remembered.command

\* the remembered call, another call, then a call on the remembered text
C9_Witness ==
    /\ Resolved
    /\ remembered # NoCall
    /\ text = remembered.text
    /\ text = <<"find", "xyz">>
    /\ calls > remembered.call + 1

(* C10: with frame_width 640, get_object_direction returns 'left' exactly  *)
(* when the centre x is below 256, 'right' exactly when it is above 384    *)
(* and 'center' on the closed interval [256, 384]; for every width the     *)
(* centre band is frame_width // 2 plus or minus frame_width / 10, both    *)
(* boundaries included.                                                    *)
C10_DeadZone ==
    direction # "none" =>
        /\ frame_width = 640 =>
               /\ direction = "left" <=> center_x < 256
               /\ direction = "right" <=> center_x > 384
               /\ direction = "center" <=> center_x \in 256..384
        /\ direction \in {"left", "center", "right"}
        /\ direction = "center" <=>
               /\ 10 * center_x >= 10 * (frame_width \div 2) - frame_width
               /\ 10 * center_x <= 10 * (frame_width \div 2) + frame_width

\* the lower boundary of the dead-zone
C10_Witness ==
    /\ frame_width = 640
    /\ center_x = 256
    /\ direction = "center"

\* the positions of the entries whose name contains sub, case-insensitively
Matching(objs, sub) ==
    {i \in DOMAIN objs : LowerContains(LowerName(objs[i].name), LowerName(sub))}

(* C11: get_largest_object returns None when no entry of the snapshot       *)
(* matches the type filter (every entry matches when no filter is given),   *)
(* and otherwise a matching entry of maximal area among the matching       *)
(* entries, the first such entry in snapshot order, whatever the order.    *)
C11_LargestObject ==
    rd_op = "get_largest_object" =>
        LET matching == Matching(snapshot, rd_arg)
        IN  IF matching = {}
            THEN rd_idx = 0 /\ rd_result = None
            ELSE /\ rd_idx \in matching
                 /\ rd_result = snapshot[rd_idx]
                 /\ \A j \in matching :
                        /\ snapshot[j].area <= rd_result.area
                        /\ snapshot[j].area = rd_result.area => rd_idx <= j

\* two entries of equal area, the larger-area entry not first: the first of
\* the two is returned
C11_Witness ==
    /\ rd_op = "get_largest_object"
    /\ rd_arg = ""
    /\ Len(snapshot) = 2
    /\ snapshot[1].area = snapshot[2].area
    /\ snapshot[1] # snapshot[2]
    /\ rd_idx = 1

\* a filtered call that skips a larger entry of another type
C11_FilterWitness ==
    /\ rd_op = "get_largest_object"
    /\ rd_arg = "person"
    /\ Len(snapshot) = 2
    /\ snapshot[1].name = "red_ball" /\ snapshot[1].area = 10000
    /\ rd_idx = 2

(* C12: find_object(name) returns the first entry in snapshot order whose   *)
(* name contains name, compared case-insensitively, None when there is no  *)
(* such entry, and leaves the snapshot as it found it.                     *)
C12_FindObject ==
    rd_op = "find_object" =>
        LET matching == Matching(snapshot, rd_arg)
        IN  /\ IF matching = {}
               THEN rd_idx = 0 /\ rd_result = None
               ELSE /\ rd_idx \in matching
                    /\ \A j \in matching : rd_idx <= j
                    /\ rd_result = snapshot[rd_idx]
            /\ rd_list = detected_objects
            /\ snapshot = rd_seen

\* a name found despite its case, behind an entry that does not match
C12_Witness ==
    /\ rd_op = "find_object"
    /\ rd_arg = "person"
    /\ Len(snapshot) = 2
    /\ snapshot[1].name = "red_ball"
    /\ snapshot[2].name = "Person"
    /\ rd_idx = 2

\* no entry matches
C12_NoneWitness ==
    /\ rd_op = "find_object"
    /\ rd_arg = "car"
    /\ Len(snapshot) = 2
    /\ rd_result = None

Executed(actions) ==
    /\ operation.name = "execute_command"
    /\ operation.command.action \in actions

(* C13: for a plain locomotion command execute_command hands send_command   *)
(* exactly one record, whose (left_motor, right_motor) is (+s,+s) for       *)
(* MoveForward, (-s,-s) for MoveBackward, (-s,+s) for TurnLeft, (+s,-s)    *)
(* for TurnRight and (0,0) for Stop, with s > 0 the scaled speed, and      *)
(* whose action field is the action's name.                                *)
C13_MotorPowers ==
    Executed(LocomotionActions) =>
        /\ Len(handed) = 1
        /\ LET r == handed[1]
               s == r["speed"]
               a == operation.command.action
               powers == <<r["left_motor"], r["right_motor"]>>
           IN  /\ s > 0
               /\ r["action"] = a
               /\ a = "move_forward" => powers = <<s, s>>
               /\ a = "move_backward" => powers = <<-s, -s>>
               /\ a = "turn_left" => powers = <<-s, s>>
               /\ a = "turn_right" => powers = <<s, -s>>
               /\ a = "stop" => powers = <<0, 0>>

\* a slow left turn has been executed
C13_Witness ==
    /\ Executed({TURN_LEFT})
    /\ Len(handed) = 1
    /\ handed[1]["left_motor"] = -90
    /\ handed[1]["right_motor"] = 90

(* C14: the speed execute_command uses is 90 for 'slow' / 'slowly', 210 for *)
(* 'fast' / 'quick' / 'quickly' and 150 without a speed qualifier, so slow  *)
(* < default < fast, and every motor power handed over is in [-255, 255].  *)
C14_ScaledSpeed ==
    Executed(RobotAction \ {UNKNOWN}) =>
        LET r == handed[1]
            ps == operation.command.parameters
            qualifier == IF "speed" \in DOMAIN ps THEN ps["speed"] ELSE "none"
        IN  /\ qualifier \in {"slow", "slowly"} => r["speed"] = 90
            /\ qualifier \in {"fast", "quick", "quickly"} => r["speed"] = 210
            /\ qualifier = "none" => r["speed"] = 150
            /\ \A k \in {"left_motor", "right_motor"} \cap DOMAIN r :
                   r[k] >= -255 /\ r[k] <= 255

\* a quick move backward has been executed
C14_Witness ==
    /\ Executed({MOVE_BACKWARD})
    /\ "speed" \in DOMAIN operation.command.parameters
    /\ operation.command.parameters["speed"] = "quickly"
    /\ handed[1]["left_motor"] = -210

(* C15: for MoveForward, MoveBackward, TurnLeft and TurnRight the record's  *)
(* duration is the command's duration in seconds (times 60 when the unit   *)
(* is 'minute') whenever the command carries one, 0 included, and the      *)
(* default (1.0 s for moves, 0.5 s for turns) only when it carries none.   *)
C15_DurationConverted ==
    Executed({MOVE_FORWARD, MOVE_BACKWARD, TURN_LEFT, TURN_RIGHT}) =>
        LET r == handed[1]
            ps == operation.command.parameters
            a == operation.command.action
        IN  IF "duration" \in DOMAIN ps
            THEN r["duration"] =
                     IF ps["unit"] = "minute"
                     THEN 60 * Seconds(ps["duration"])
                     ELSE Seconds(ps["duration"])
            ELSE r["duration"] =
                     IF a \in {MOVE_FORWARD, MOVE_BACKWARD} THEN 10 ELSE 5

(* C17: connect() returns True and sets is_connected when the connection    *)
(* succeeds; when the attempt raises it returns False and is_connected is  *)
(* False afterwards, also when the controller was connected before.        *)
C17_Connect ==
    operation.name = "connect" =>
        IF operation.arg = "succeeds"
        THEN result = "True" /\ is_connected
        ELSE result = "False" /\ ~is_connected

\* an attempt has raised on a controller that was connected
C17_Witness ==
    /\ operation.name = "connect"
    /\ operation.arg = "raises while connected"
    /\ result = "False"

(* C18: emergency_stop() hands send_command exactly one record, with action *)
(* 'emergency_stop', left_motor 0, right_motor 0 and duration 0, and       *)
(* returns what send_command returns: False, with nothing written, when    *)
(* the controller is not connected.                                        *)
C18_EmergencyStop ==
    operation.name = "emergency_stop" =>
        /\ Len(handed) = 1
        /\ DOMAIN handed[1] = {"action", "left_motor", "right_motor", "duration"}
        /\ handed[1]["action"] = "emergency_stop"
        /\ handed[1]["left_motor"] = 0
        /\ handed[1]["right_motor"] = 0
        /\ handed[1]["duration"] = 0
        /\ result = IF wire = handed THEN "True" ELSE "False"
        /\ wire \in {<<>>, handed}
        /\ operation.arg = "not connected" => result = "False" /\ wire = <<>>

\* an emergency stop on a controller that is not connected
C18_Witness ==
    /\ operation.name = "emergency_stop"
    /\ operation.arg = "not connected"
    /\ result = "False"

\* an emergency stop that was written to the socket
C18_DeliveredWitness ==
    /\ operation.name = "emergency_stop"
    /\ wire = <<EmergencyStopData>>
    /\ result = "True"

\* the vision branch of _handle_voice_control has run for action a
VisionOp(a) ==
    /\ operation.name = "_handle_voice_control"
    /\ operation.command.action = a

AutonomousOp == operation.name = "_handle_autonomous_mode"

\* the position in the snapshot of the object the last handler looked for
Target ==
    IF AutonomousOp
    THEN get_largest_object(snapshot, "")
    ELSE find_object(snapshot, operation.command.parameters["object"])

TargetDirection == get_object_direction(snapshot[Target].center, 640)

SearchDirective(duration) ==
    [action |-> "turn_right", left_motor |-> 150, right_motor |-> -150,
     duration |-> duration]

(* C16: when the target is absent from the snapshot (find_object returns    *)
(* None for FindObject / FollowObject, get_largest_object returns None in  *)
(* autonomous mode) the handler fails with no error and hands over exactly *)
(* one directive: turn_right with motors (150, -150), for 1.0 s in         *)
(* FindObject, 0.5 s in FollowObject and 0.3 s in autonomous mode.         *)
C16_SearchWhenAbsent ==
    /\ VisionOp(FIND_OBJECT) /\ Target = 0 =>
           handed = <<SearchDirective(10)>> /\ result = "none"
    /\ VisionOp(FOLLOW_OBJECT) /\ Target = 0 =>
           handed = <<SearchDirective(5)>> /\ result = "none"
    /\ AutonomousOp /\ Target = 0 =>
           handed = <<SearchDirective(3)>> /\ result = "none"

\* 'find car' on a snapshot with two other objects
C16_Witness ==
    /\ VisionOp(FIND_OBJECT)
    /\ operation.command.parameters["object"] = "car"
    /\ Len(snapshot) = 2
    /\ Len(handed) = 1
    /\ handed[1]["duration"] = 10

\* autonomous mode on an empty snapshot
C16_AutonomousWitness ==
    /\ AutonomousOp
    /\ snapshot = <<>>
    /\ Len(handed) = 1

\* the directive for a target that is present, by its direction
DirectiveFollows ==
    /\ Len(handed) = 1
    /\ TargetDirection = "left" => handed[1]["action"] = "turn_left"
    /\ TargetDirection = "right" => handed[1]["action"] = "turn_right"
    /\ TargetDirection = "center" =>
           handed[1]["action"] =
               IF snapshot[Target].area <
                      (IF AutonomousOp THEN 10000 ELSE 8000)
               THEN "move_forward"
               ELSE "stop"

(* C19 as claimed: in FindObject, FollowObject and autonomous mode, when    *)
(* the target is present a directive is handed over: turn_left or          *)
(* turn_right when its direction is left or right, and move_forward or     *)
(* stop when its direction is center.                                      *)
C19_DirectiveWhenPresent ==
    /\ (VisionOp(FOLLOW_OBJECT) \/ AutonomousOp) /\ Target # 0 => DirectiveFollows
    /\ VisionOp(FIND_OBJECT) /\ Target # 0 =>
           /\ Len(handed) = 1
           /\ TargetDirection = "left" => handed[1]["action"] = "turn_left"
           /\ TargetDirection = "right" => handed[1]["action"] = "turn_right"
           /\ TargetDirection = "center" =>
                  handed[1]["action"] \in {"move_forward", "stop"}

(* C19 amended: in FollowObject and autonomous mode a present target always *)
(* yields one directive: turn_left / turn_right for left / right, and for  *)
(* center move_forward below the proximity threshold and stop at or above  *)
(* it.  In FindObject a present target yields a turn directive for left /  *)
(* right and no directive at all when it is in the center.                 *)
C19_DirectiveWhenPresentAmended ==
    /\ (VisionOp(FOLLOW_OBJECT) \/ AutonomousOp) /\ Target # 0 => DirectiveFollows
    /\ VisionOp(FIND_OBJECT) /\ Target # 0 =>
           IF TargetDirection = "center"
           THEN handed = <<>>
           ELSE /\ Len(handed) = 1
                /\ TargetDirection = "left" => handed[1]["action"] = "turn_left"
                /\ TargetDirection = "right" => handed[1]["action"] = "turn_right"

\* FindObject with its object in the center: nothing is handed over
C19_Witness ==
    /\ VisionOp(FIND_OBJECT)
    /\ Target # 0
    /\ TargetDirection = "center"
    /\ handed = <<>>

\* autonomous mode stops in front of a near object
C19_StopWitness ==
    /\ AutonomousOp
    /\ Target # 0
    /\ TargetDirection = "center"
    /\ Len(handed) = 1
    /\ handed[1]["action"] = "stop"

(* C20: FollowObject turns for 0.3 s, moves forward for 0.5 s when the      *)
(* centered object's area is below 8000 and stops at 8000 or more;         *)
(* autonomous mode searches for 0.3 s, turns for 0.2 s, moves forward for  *)
(* 0.5 s below 10000 and stops at 10000 or more; FindObject turns for      *)
(* 0.5 s and searches for 1.0 s.  A centered object of area in [8000,      *)
(* 10000) makes FollowObject stop and autonomous mode move forward.        *)
C20_ModeConstants ==
    LET d == handed[1]
        turn == TargetDirection \in {"left", "right"}
        area == snapshot[Target].area
    IN  /\ VisionOp(FOLLOW_OBJECT) /\ Target # 0 =>
               /\ turn => d["duration"] = 3
               /\ ~turn /\ area < 8000 =>
                      d["action"] = "move_forward" /\ d["duration"] = 5
               /\ ~turn /\ area >= 8000 => d["action"] = "stop"
        /\ AutonomousOp =>
               /\ Target = 0 => d["duration"] = 3
               /\ Target # 0 /\ turn => d["duration"] = 2
               /\ Target # 0 /\ ~turn /\ area < 10000 =>
                      d["action"] = "move_forward" /\ d["duration"] = 5
               /\ Target # 0 /\ ~turn /\ area >= 10000 => d["action"] = "stop"
        /\ VisionOp(FIND_OBJECT) =>
               /\ Target = 0 => d["duration"] = 10
               /\ Target # 0 /\ turn => d["duration"] = 5

\* FollowObject stops in front of a centered object of area 9000
C20_Witness ==
    /\ VisionOp(FOLLOW_OBJECT)
    /\ Target # 0
    /\ TargetDirection = "center"
    /\ snapshot[Target].area = 9000
    /\ handed[1]["action"] = "stop"

\* autonomous mode moves towards a centered object of area 9000
C20_AutonomousWitness ==
    /\ AutonomousOp
    /\ Target # 0
    /\ TargetDirection = "center"
    /\ snapshot[Target].area = 9000
    /\ handed[1]["action"] = "move_forward"

\* the groups of the first matching pattern of the action of the result
FirstMatchGroups ==
    LET a == Min(MatchingActions(Words))
        pats == CommandPatterns[a].patterns
        p == Min({q \in DOMAIN pats : Search(pats[q], Words).ok})
    IN  Search(pats[p], Words).groups

Described == operation.name = "get_action_description"

\* the fixed template of an action, with the object substituted
Template(cmd) ==
    CASE cmd.action = MOVE_FORWARD -> "Move forward"
      [] cmd.action = MOVE_BACKWARD -> "Move backward"
      [] cmd.action = TURN_LEFT -> "Turn left"
      [] cmd.action = TURN_RIGHT -> "Turn right"
      [] cmd.action = STOP -> "Stop"
      [] cmd.action = UNKNOWN -> "Unknown command"
      [] cmd.action \in {FIND_OBJECT, FOLLOW_OBJECT} ->
             (IF cmd.action = FIND_OBJECT THEN "Find " ELSE "Follow ")
             \o (IF "object" \in DOMAIN cmd.parameters
                 THEN cmd.parameters["object"] ELSE "object")
      [] cmd.action = AVOID_OBSTACLE ->
             "Avoid " \o (IF "object" \in DOMAIN cmd.parameters
                          THEN cmd.parameters["object"] ELSE "obstacle")

SpeedSuffix(cmd) ==
    IF "speed" \in DOMAIN cmd.parameters
    THEN " (" \o cmd.parameters["speed"] \o ")"
    ELSE ""

DurationSuffix(cmd) ==
    IF "duration" \in DOMAIN cmd.parameters
    THEN " for " \o ToString(cmd.parameters["duration"]) \o " "
         \o cmd.parameters["unit"] \o "s"
    ELSE ""

(* C24: get_action_description leaves the command unchanged and, for every *)
(* command parse_command returns, returns the template of the action with  *)
(* parameters['object'] substituted, followed by ' (<speed>)' when a speed *)
(* is present and by ' for <duration> <unit>s' when a duration is present; *)
(* it does not fail, 'duration' being present only together with 'unit'.   *)
C24_Description ==
    /\ Resolved =>
           ("duration" \in DOMAIN command.parameters
                <=> "unit" \in DOMAIN command.parameters)
    /\ Described =>
           /\ command = operation.command
           /\ operation.command = parse_command(command_patterns, known_objects, text)
           /\ result # "KeyError"
           /\ result = Template(command) \o SpeedSuffix(command)
                           \o DurationSuffix(command)

\* both suffixes after an object template
C24_Witness ==
    /\ Described
    /\ text = <<"avoid", "slowly", "5seconds">>
    /\ result = "Avoid slowly (slowly) for 5 seconds"

\* as in test_command_description: the template and the speed word
C24_TestWitness ==
    /\ Described
    /\ text = <<"forward", "slowly">>
    /\ result = "Move forward (slowly)"

\* the records are motor directives: wheel powers and a duration
MotorDirectives(records) ==
    \A i \in DOMAIN records :
        {"left_motor", "right_motor", "duration"} \subseteq DOMAIN records[i]

(* C21 as stated: an accepted AvoidObstacle command is handled like        *)
(* FindObject and FollowObject, what is handed to send_command is a motor  *)
(* directive (wheel powers and duration) decided from the snapshot.        *)
C21_AvoidIsVisionDriven ==
    VisionOp(AVOID_OBSTACLE) => MotorDirectives(handed)

(* C21 amended: an accepted AvoidObstacle command is passed to             *)
(* execute_command, which hands send_command exactly one record made of    *)
(* the action, the speed, the object of the command and vision_mode, with  *)
(* no wheel powers and no duration, whatever the snapshot holds; FindObject *)
(* and FollowObject hand motor directives only.                            *)
C21_AvoidIsForwarded ==
    /\ VisionOp(AVOID_OBSTACLE) =>
           /\ Len(handed) = 1
           /\ DOMAIN handed[1] = {"action", "speed", "object", "vision_mode"}
           /\ handed[1]["action"] = AVOID_OBSTACLE
           /\ handed[1]["speed"] = default_speed
           /\ handed[1]["object"] = operation.command.parameters["object"]
           /\ handed[1]["vision_mode"] = "True"
    /\ VisionOp(FIND_OBJECT) \/ VisionOp(FOLLOW_OBJECT) => MotorDirectives(handed)

\* the object to avoid is in the snapshot, right of the center, where
\* FindObject and FollowObject turn right
C21_Witness ==
    /\ VisionOp(AVOID_OBSTACLE)
    /\ handed # <<>>
    /\ find_object(snapshot, "ball") # 0
    /\ snapshot[find_object(snapshot, "ball")].center > 384

\* FollowObject on the same kind of snapshot hands a directive
C21_FollowWitness ==
    /\ VisionOp(FOLLOW_OBJECT)
    /\ handed # <<>>
    /\ MotorDirectives(handed)

(* C23: the decision path never waits for a frame.  A read of the camera   *)
(* that fails or raises leaves the stored snapshot as it was; a query can  *)
(* be called and can take its next step whoever holds frame_lock and       *)
(* wherever the camera thread is; a query reads the stored snapshot and    *)
(* never takes or releases frame_lock.                                     *)
C23_NeverWaits ==
    [][ /\ cam_pc = "read" /\ cam_pc' = "sleep" =>
               /\ detected_objects' = detected_objects
               /\ heap' = heap
        /\ rd_pc = "idle" => ENABLED QueryCall
        /\ rd_pc = "iter" => ENABLED QueryStep
        /\ rd_pc = "idle" /\ rd_pc' = "iter" =>
               /\ rd_list' = detected_objects
               /\ frame_lock' = frame_lock
        /\ rd_pc = "iter" /\ <<rd_pc, rd_idx>>' # <<rd_pc, rd_idx>> =>
               /\ frame_lock' = frame_lock
               /\ heap' = heap ]_vars

\* a query has returned an entry of the first frame while the camera, past
\* a failed read, sleeps and another thread holds frame_lock
C23_Witness ==
    /\ cam_pc = "sleep"
    /\ frame_lock = "get_current_frame"
    /\ frame_no = 1
    /\ snapshot # <<>>
    /\ rd_pc = "idle"
    /\ rd_result # None
    /\ rd_list = detected_objects

\* a query runs while the camera thread holds frame_lock
C23_LockedWitness ==
    /\ frame_lock = "_camera_loop"
    /\ rd_pc = "iter"
    /\ rd_seen # <<>>

(* C22: the control loop starts in voice-control mode and is in autonomous *)
(* mode only when more than 30 seconds have passed without an accepted     *)
(* command, counted from the last accepted command, from the last return   *)
(* to voice control, or from the start of the system when there is none;   *)
(* a text received in autonomous mode switches the mode back to voice      *)
(* control.                                                                *)
C22_TimeoutSwitch ==
    /\ current_mode = "autonomous" => now - timer_start > command_timeout
    /\ operation.name = "_handle_autonomous_mode" /\ current_mode = "voice_control" =>
           last_command_time = now

\* the loop in autonomous mode at the time of the start of the system
C22_Witness ==
    /\ operation.name = "_handle_voice_control"
    /\ operation.command = NoCommand
    /\ current_mode = "autonomous"
    /\ now = StartTime
    /\ last_command_time = 0

\* the voice handler has taken a text and dropped it
Dropped ==
    /\ operation.name = "_handle_voice_control"
    /\ operation.command # NoCommand
    /\ operation.command.confidence <= 5

(* C26: no record is handed to send_command for an utterance resolved to   *)
(* UNKNOWN.  In voice-control mode a command whose confidence is not above *)
(* 0.5 is dropped: nothing is handed or written and last_command_time is   *)
(* not refreshed; execute_command on an UNKNOWN command returns False and  *)
(* hands nothing to send_command.                                          *)
C26_UnknownDropped ==
    [][ /\ Dropped' =>
               /\ handed' = <<>>
               /\ wire' = <<>>
               /\ last_command_time' = last_command_time
        /\ operation'.name = "_handle_voice_control"
             /\ operation'.command.action = UNKNOWN => Dropped'
        /\ operation'.name = "execute_command"
             /\ operation'.command.action = UNKNOWN =>
               /\ result' = "False"
               /\ handed' = <<>>
               /\ wire' = <<>>
        /\ \A i \in DOMAIN handed' : handed'[i]["action"] # UNKNOWN ]_vars

\* 'xyz' has been taken from the queue and dropped by a connected system
\* whose last command was accepted earlier
C26_Witness ==
    /\ Dropped
    /\ operation.command.action = UNKNOWN
    /\ operation.command.parameters["original_text"] = <<"xyz">>
    /\ operation.arg = "connected"
    /\ last_command_time > 0
    /\ last_command_time < now
    /\ handed = <<>>

\* execute_command has been called with an UNKNOWN command while connected
C26_ExecuteWitness ==
    /\ operation.name = "execute_command"
    /\ operation.command.action = UNKNOWN
    /\ operation.arg = "connected"
    /\ result = "False"

\* the autonomous handler has run
Autonomous == operation.name = "_handle_autonomous_mode"

(* C27: a text dequeued while the system is in autonomous mode only        *)
(* switches the mode back to voice control and sets last_command_time to   *)
(* the current time.  It is taken from the queue and is neither parsed nor *)
(* executed: what the handler hands to send_command is the directive       *)
(* decided from the snapshot alone, and the text is gone for the voice     *)
(* handler that runs next.                                                 *)
C27_AutonomousConsumes ==
    [][ Autonomous' /\ ~Autonomous /\ command_queue # <<>> =>
            /\ command_queue' = Tail(command_queue)
            /\ current_mode' = "voice_control"
            /\ last_command_time' = now
            /\ operation'.command = NoCommand
            /\ command' = command
            /\ Len(handed') <= 1
            /\ \A i \in DOMAIN handed' :
                   /\ handle_autonomous_mode(snapshot) # <<>>
                   /\ handed'[i] = MoveRobotData(handle_autonomous_mode(snapshot)[1][1],
                                                 handle_autonomous_mode(snapshot)[1][2])
                   /\ handed'[i]["action"] # STOP \/ snapshot # <<>> ]_vars

\* the autonomous handler of a connected system seeing nothing has taken
\* the queued text, whatever it said: the robot was told to turn right
C27_Witness ==
    /\ Autonomous
    /\ operation.arg = "connected"
    /\ current_mode = "voice_control"
    /\ last_command_time = now
    /\ command_queue = <<>>
    /\ snapshot = <<>>
    /\ Len(wire) = 1
    /\ wire[1]["action"] = TURN_RIGHT

(* C25: after stop() is called on a running system the emergency_stop      *)
(* record is the last record delivered to the robot: whatever the          *)
(* interleaving of stop() and the control-loop thread, no record is        *)
(* written to the socket after the emergency stop.                         *)
C25_EmergencyStopLast ==
    \A i \in DOMAIN delivered :
        delivered[i]["action"] = "emergency_stop" => i = Len(delivered)

\* stop() has returned after a delivered emergency stop
C25_Witness ==
    /\ sys_pc = "stopped"
    /\ delivered # <<>>
    /\ delivered[Len(delivered)]["action"] = "emergency_stop"

\* start() has returned
Started == operation.name = "start"

(* C30: start() brings up the robot connection, the camera, the voice      *)
(* listening, the motor calibration and the control loop in this order and *)
(* returns True only if the connection and the camera started; when it     *)
(* returns False, is_running is False, the control-loop thread is not      *)
(* started and is_connected is False.                                      *)
C30_StartAllOrNothing ==
    Started =>
        /\ startup = SubSeq(StartupOrder, 1, Len(startup))
        /\ result = "True" =>
               /\ startup = StartupOrder
               /\ is_running
               /\ ctl_pc # "none"
        /\ result = "False" =>
               /\ ~is_running
               /\ ctl_pc = "none"
               /\ ~is_connected

\* the connection was made and the camera did not start
C30_Witness ==
    /\ Started
    /\ operation.arg = "no camera"
    /\ result = "False"
    /\ startup = <<"robot connection">>

\* the operation called was a send_command or ended in one
Sending ==
    operation.name \in {"execute_command", "emergency_stop",
                        "_handle_voice_control", "_handle_autonomous_mode"}

(* C28: nothing is written to the socket while is_connected is False, and  *)
(* execute_command and emergency_stop, which return what send_command      *)
(* returned, then return False.  A send that raises leaves is_connected    *)
(* False, and it stays False, every later operation writing nothing, until *)
(* connect() succeeds: no handler of the control loop makes it True.       *)
C28_NoWriteUnlessConnected ==
    [][ /\ ~is_connected /\ operation'.name # "connect" =>
               /\ wire' = <<>>
               /\ ~is_connected'
        /\ ~is_connected /\ operation = NoOp
             /\ operation'.name \in {"execute_command", "emergency_stop"} =>
               result' = "False"
        /\ Sending' /\ Len(wire') < Len(handed') => ~is_connected'
        /\ ~is_connected /\ is_connected' =>
               /\ operation'.name = "connect"
               /\ operation'.arg = "succeeds" ]_vars

\* a send of a handler has raised on a connected system: a record was
\* handed, none written, the connection is marked lost
C28_Witness ==
    /\ operation.name = "_handle_autonomous_mode"
    /\ operation.arg = "connected"
    /\ Len(handed) = 1
    /\ wire = <<>>
    /\ ~is_connected

\* emergency_stop on a system that is not connected
C28_RefusedWitness ==
    /\ operation.name = "emergency_stop"
    /\ operation.arg = "not connected"
    /\ Len(handed) = 1
    /\ wire = <<>>
    /\ result = "False"

====
